---- MODULE Spec2Model ----
(***************************************************************************)
(* Link-layer protocol of the LoRa FHSS demo: the Initiator                *)
(* (lora_sender.py), the Responder (lora_receiver.py), the passive sniffer *)
(* (eavesdrop.py) and the polling radio driver they share (lora_min.py).   *)
(*                                                                         *)
(* Time is a global millisecond clock `now'.  Every blocking call (send,   *)
(* recv, sleep_ms) is a pair "call started / call returned"; the code      *)
(* between two blocking calls is one action and takes no time.  SHA-256    *)
(* and AES are symbolic: a digest is the tagged tuple of its input, a      *)
(* ciphertext remembers the key (and IV) it was made with, and a decrypt   *)
(* under any other key yields garbage.                                     *)
(***************************************************************************)
EXTENDS Integers, Sequences, FiniteSets, TLC

\* ------------------------------------------------------------------ bounds
MaxNonce   == 3      \* handshake attempts (urandom(8) calls) explored
MaxCounter == 3      \* Data frames explored
MaxReplay  == 1      \* frames re-injected by the environment
MaxTime    == 14000  \* clock horizon, ms
ReplayTime == 600    \* clock horizon of the runs with re-injected frames, ms
SniffTime  == 9000   \* clock horizon of the runs with the sniffer tuned in, ms
TxAirMs    == 100    \* time a completed transmission takes, ms
HarnessSpan == 20    \* |R - r| explored by the unwrap harness
MaxSlot    == 12     \* hop slots explored by the hop harness
MaxStart   == 3      \* start instants (in hop intervals) of the static scheduler runs
StaticSpan == 40000  \* time a static scheduler run covers, ms
StaticStep == 5000   \* time between two polls of the static scheduler, ms
DataTime   == 9000   \* horizon of the runs with repeated Data frames, ms
NoiseTime  == 300    \* horizon of the runs with noise frames, ms
RecoverNonce == 4    \* handshake attempts explored by the recovery runs
RecoverTime == 9000  \* horizon of the recovery runs, ms
RadioTime  == 6      \* horizon of the radio driver runs, ms
RadioTimeout == 3    \* the finite timeout_ms of the radio driver runs, ms
MaxHi      == 3      \* largest high limb of a counter (counters below 2^33)
EpochPolls == 8      \* polls of the epoch-based slot in one long run
MaxEdits   == 2      \* edits made to one frame text before it is parsed again
MaxMsgLen  == 33     \* longest message of the codec run, bytes

\* --------------------------------------------------- program constants
HOP_INTERVAL_MS     == 4000
HOP_GUARD_MS        == 250
TX_TUNE_SETTLE_MS   == 25
RENDEZVOUS_FREQ_KHZ == 923200
RSSI_WINDOW_DB      == 8
RSSI_STEP_DB        == 1
TX_CENTER_TOL_MS    == 500
Q_MIN               == 0 - 40
Q_MAX               == 0
SEND_TIMEOUT_MS     == 1500
REPLY_TIMEOUT_MS    == 2000
LISTEN_TIMEOUT_MS   == 2000
PARKED_TIMEOUT_MS   == 200
RETRY_SLEEP_MS      == 200
EPOCH_POLL_MS       == 25
REPEAT_SLEEP_MS     == 300
LOOP_SLEEP_MS       == 50
START_IN_MS         == 2000
TX_CENTER_MS        == HOP_INTERVAL_MS \div 2
TICKS_PERIOD        == 2^30
TAG_BLOCK           == "HSK-OK-ICEWIN!!#"
FREQ_TABLE_KHZ      == <<920600, 920800, 921000, 921200, 921400, 921600, 923200, 923400>>
MESSAGE             == <<72,69,76,76,76,76,76,76,76,79,79,79,79,79,79,79,79>>

\* Python's None for byte strings / dicts, and for integers (seed, epoch).
None    == <<>>
NoneInt == 0 - 1

\* RSSI readings the radio can report for a frame (dBm, -157 + register);
\* the values straddle the Initiator's +-8 window and the sniffer's range.
RssiValues == {0 - 73, 0 - 65, 0 - 64, 0 - 40}

Abs(x) == IF x < 0 THEN 0 - x ELSE x
Min2(a, b) == IF a <= b THEN a ELSE b

\* ------------------------------------------------------ text conversions
\* str(int) / int(str): a decimal string is the tagged number.
str_of(n) == <<"dec", n>>
IsDec(s) == Len(s) = 2 /\ s[1] = "dec"
int_of(s) == s[2]
\* ubinascii.hexlify / unhexlify: a hex string is the tagged byte string.
hexlify(b) == <<"hex", b>>
IsHex(h) == Len(h) = 2 /\ h[1] = "hex"
unhexlify(h) == h[2]

\* parse_kvs: the text is the sequence of its comma-separated parts; a part
\* with '=' is <<key, value>>, one without is a 1-tuple.  Later keys win.
RECURSIVE parse_kvs(_)
parse_kvs(text) ==
    IF text = <<>> THEN <<>>
    ELSE LET part == text[Len(text)]
             rest == parse_kvs(SubSeq(text, 1, Len(text) - 1))
         IN IF Len(part) = 2
            THEN [k \in (DOMAIN rest) \cup {part[1]} |->
                     IF k = part[1] THEN part[2] ELSE rest[k]]
            ELSE rest

\* bytes.decode(): a payload is the sequence of its comma-separated parts;
\* a part of three elements stands for a run of bytes that is not UTF-8.
IsUtf8(payload) == \A i \in DOMAIN payload : Len(payload[i]) <= 2

Has(kv, k) == k \in DOMAIN kv
Get(kv, k, dflt) == IF k \in DOMAIN kv THEN kv[k] ELSE dflt

\* -------------------------------------------------------------- hashing
\* uhashlib.sha256(x).digest()[:16] on the tagged input.
Sha256_16(x) == <<"sha256", x>>
\* struct.pack(">I", n & 0xFFFFFFFF) for n = hi * 2^31 + lo with lo < 2^31:
\* Python's integers are unbounded, so a counter is carried in two limbs.
pack_u32(hi, lo) ==
    <<(hi % 2) * 128 + (lo \div 16777216), (lo \div 65536) % 256,
      (lo \div 256) % 256, lo % 256>>
be32(n) == pack_u32(0, n)

\* round half to even of a / step, for step > 0 (Python round()).
RoundDiv(a, step) ==
    LET f == IF a >= 0 THEN a \div step ELSE 0 - ((0 - a + step - 1) \div step)
        r == a - f * step
    IN IF 2 * r < step THEN f
       ELSE IF 2 * r > step THEN f + 1
       ELSE IF f % 2 = 0 THEN f ELSE f + 1

q_rssi(rssi_dbm, step) == RoundDiv(rssi_dbm, step) * step

kdf_from_rssi_and_nonce(q, nonce_bytes) ==
    Sha256_16(<<"RSSI-KDFv1|", str_of(q), "|", nonce_bytes>>)

\* Variant: the whole counter is hashed, with no 32-bit mask.
derive_msg_key_nomask(master_key, hi, lo) ==
    Sha256_16(<<"MSG-KDF-v1|", master_key, "|", <<hi>> \o pack_u32(0, lo)>>)

\* lora_sender.py derive_msg_key on a counter given by its limbs
derive_msg_key_wide(master_key, hi, lo) ==
    Sha256_16(<<"MSG-KDF-v1|", master_key, "|", pack_u32(hi, lo)>>)

derive_msg_key(master_key, counter) == derive_msg_key_wide(master_key, 0, counter)

\* lora_receiver.py: its own copy
rx_derive_msg_key_wide(master_key, hi, lo) ==
    Sha256_16(<<"MSG-KDF-v1|", master_key, "|", pack_u32(hi, lo)>>)

rx_derive_msg_key(master_key, counter) == rx_derive_msg_key_wide(master_key, 0, counter)

\* Numbers read out of a SHA-256 digest.  The hashed bytes are kept as the
\* tuple of their parts; the number is a stand-in that depends on every
\* part and is injective on the modelled keys and RSSI readings.
PartCode(t) ==
    CASE t = "FHSS-SEED-v1|" -> 0
      [] t = "FHSS-HOP-v1|"  -> 5
      [] t = "|"             -> 0
      [] OTHER               -> 97
\* u32(h[:4]) of the seed digest
SeedDigestU32(parts) ==
    PartCode(parts[1]) + parts[2][2] * 1000 + PartCode(parts[3])
        + (int_of(parts[4]) + 500)
\* h[0] of the hop digest
HopDigestByte(parts) ==
    (parts[2] * 7 + parts[3] * 13 + PartCode(parts[1])) % 256
\* x & 0xFFFFFFFF on the modelled values, all in 0 .. 2^31 - 1
U32Mask(x) == x

\* lora_sender.py: "FHSS-SEED-v1|" + key + "|" + str(q), first four bytes.
derive_hop_seed(session_key16, q) ==
    SeedDigestU32(<<"FHSS-SEED-v1|", session_key16, "|", str_of(q)>>)

\* lora_sender.py: "FHSS-HOP-v1|" + pack(">II", seed, slot), first byte,
\* modulo the table length.
hop_idx_for_slot(hop_seed_u32, slot) ==
    HopDigestByte(<<"FHSS-HOP-v1|", U32Mask(hop_seed_u32), U32Mask(slot)>>)
        % Len(FREQ_TABLE_KHZ)

hop_freq_for_slot_seeded(hop_seed_u32, slot) ==
    FREQ_TABLE_KHZ[hop_idx_for_slot(hop_seed_u32, slot) + 1]

\* lora_receiver.py: its own table and its own copies of the hop functions.
RX_FREQ_TABLE_KHZ == <<920600, 920800, 921000, 921200, 921400, 921600, 923200, 923400>>

rx_derive_hop_seed(session_key16, q) ==
    SeedDigestU32(<<"FHSS-SEED-v1|", session_key16, "|", str_of(q)>>)

\* Variant: the Responder hashes the slot before the seed.
rx_hop_idx_swapped(hop_seed_u32, slot) ==
    HopDigestByte(<<"FHSS-HOP-v1|", U32Mask(slot), U32Mask(hop_seed_u32)>>)
        % Len(RX_FREQ_TABLE_KHZ)

rx_hop_idx_for_slot(hop_seed_u32, slot) ==
    HopDigestByte(<<"FHSS-HOP-v1|", U32Mask(hop_seed_u32), U32Mask(slot)>>)
        % Len(RX_FREQ_TABLE_KHZ)

rx_hop_freq_for_slot_seeded(hop_seed_u32, slot) ==
    RX_FREQ_TABLE_KHZ[rx_hop_idx_for_slot(hop_seed_u32, slot) + 1]

\* ---------------------------------------------------------------- AES
GARBAGE16 == "garbage-block"
aes_ecb_encrypt(key16, pt) == [k |-> key16, pt |-> pt]
aes_ecb_decrypt(key16, ct) ==
    IF ct.k = key16 THEN ct.pt ELSE <<GARBAGE16, GARBAGE16>>

\* Variant: a message that already fills its last block gets no padding.
pkcs7_pad_nofull(b) ==
    LET pad == (16 - (Len(b) % 16)) % 16
    IN b \o [i \in 1..pad |-> pad]

pkcs7_pad(b) ==
    LET pad == 16 - (Len(b) % 16)
    IN b \o [i \in 1..pad |-> pad]

\* Variant: only the final byte is validated.
pkcs7_unpad_lastbyte(b) ==
    IF Len(b) = 0 THEN [ok |-> FALSE, val |-> <<>>]
    ELSE LET pad == b[Len(b)]
         IN IF pad < 1 \/ pad > 16 \/ pad > Len(b)
            THEN [ok |-> FALSE, val |-> <<>>]
            ELSE [ok |-> TRUE, val |-> SubSeq(b, 1, Len(b) - pad)]

\* [ok, val]: ok = FALSE stands for the raised ValueError / IndexError.
pkcs7_unpad(b) ==
    IF Len(b) = 0 THEN [ok |-> FALSE, val |-> <<>>]
    ELSE LET pad == b[Len(b)]
         IN IF pad < 1 \/ pad > 16 \/ pad > Len(b)
               \/ \E i \in (Len(b) - pad + 1)..Len(b) : b[i] # pad
            THEN [ok |-> FALSE, val |-> <<>>]
            ELSE [ok |-> TRUE, val |-> SubSeq(b, 1, Len(b) - pad)]

\* CBC under the wrong key or IV decrypts to a block of noise.
GARBAGE_PT == <<0>>
aes_cbc_encrypt(key16, iv, pt) == [k |-> key16, iv |-> iv, pt |-> pt]
aes_cbc_decrypt(key16, iv, ct) ==
    IF ct.k = key16 /\ ct.iv = iv THEN ct.pt ELSE GARBAGE_PT

dec_msg_cbc(key16, iv_hex, ct_hex) ==
    IF ~(IsHex(iv_hex) /\ IsHex(ct_hex)) THEN [ok |-> FALSE, val |-> <<>>]
    ELSE pkcs7_unpad(aes_cbc_decrypt(key16, unhexlify(iv_hex), unhexlify(ct_hex)))

\* One candidate of the brute force: decrypt under KDF(q, nonce), compare
\* the trailing 16 bytes with TAG_BLOCK.
TagMatches(ek, nonce, q) ==
    aes_ecb_decrypt(kdf_from_rssi_and_nonce(q, nonce), ek)[2] = TAG_BLOCK

\* Variant: the window stops one step short of +W.
UnwrapCandidates_short(rssi_reply_dbm) ==
    [i \in 1..((2 * RSSI_WINDOW_DB) \div RSSI_STEP_DB) |->
        q_rssi(rssi_reply_dbm + (0 - RSSI_WINDOW_DB) + (i - 1) * RSSI_STEP_DB, 1)]

\* range(-RSSI_WINDOW_DB, RSSI_WINDOW_DB + 1, RSSI_STEP_DB), as q_try values.
UnwrapCandidates(rssi_reply_dbm) ==
    [i \in 1..((2 * RSSI_WINDOW_DB) \div RSSI_STEP_DB + 1) |->
        q_rssi(rssi_reply_dbm + (0 - RSSI_WINDOW_DB) + (i - 1) * RSSI_STEP_DB, 1)]

\* Variant: reports the centre of the window in place of the matching q.
unwrap_reports_centre(ek_hex, nonce_hex, rssi_reply_dbm) ==
    IF ~(IsHex(ek_hex) /\ IsHex(nonce_hex))
    THEN [err |-> TRUE, sess |-> None, q |-> NoneInt]
    ELSE LET ek    == unhexlify(ek_hex)
             nonce == unhexlify(nonce_hex)
             qs    == UnwrapCandidates(rssi_reply_dbm)
             hits  == {i \in DOMAIN qs : TagMatches(ek, nonce, qs[i])}
         IN IF hits = {} THEN [err |-> FALSE, sess |-> None, q |-> NoneInt]
            ELSE LET i == CHOOSE j \in hits : \A k \in hits : j <= k
                 IN [err |-> FALSE,
                     sess |-> aes_ecb_decrypt(kdf_from_rssi_and_nonce(qs[i], nonce), ek)[1],
                     q |-> q_rssi(rssi_reply_dbm, 1)]

\* unwrap_session_key_bruteforce: the first dq in range(-W, W+1, S) whose
\* decrypt ends in TAG_BLOCK gives (sess, q); none gives (None, None);
\* err stands for the exception unhexlify raises on a non-hex field.
unwrap_session_key_bruteforce(ek_hex, nonce_hex, rssi_reply_dbm) ==
    IF ~(IsHex(ek_hex) /\ IsHex(nonce_hex))
    THEN [err |-> TRUE, sess |-> None, q |-> NoneInt]
    ELSE LET ek    == unhexlify(ek_hex)
             nonce == unhexlify(nonce_hex)
             qs    == UnwrapCandidates(rssi_reply_dbm)
             hits  == {i \in DOMAIN qs : TagMatches(ek, nonce, qs[i])}
         IN IF hits = {} THEN [err |-> FALSE, sess |-> None, q |-> NoneInt]
            ELSE LET i == CHOOSE j \in hits : \A k \in hits : j <= k
                 IN [err |-> FALSE,
                     sess |-> aes_ecb_decrypt(kdf_from_rssi_and_nonce(qs[i], nonce), ek)[1],
                     q |-> qs[i]]

\* Responder side of the wrap (lora_receiver.py, HELLO branch).
WrapSessionKey(session_key, q, nonce) ==
    aes_ecb_encrypt(kdf_from_rssi_and_nonce(q, nonce), <<session_key, TAG_BLOCK>>)

\* ------------------------------------------------------------------ state
VARIABLES
    now,      \* real time, ms
    ini,      \* Initiator: locals of lora_sender.main and its position
    rsp,      \* Responder: locals of lora_receiver.main and its position
              \* (both nodes: retuned = set_frequency has been called since
              \* the last radio operation returned)
    snf,      \* Sniffer: globals of eavesdrop.py and its position
    sent,     \* every frame put on the air so far, with its frequency
    budget,   \* what is left to explore and what the channel does:
              \* [replays, time, nonces, lossy, rssi]
    issued,   \* (nonce, session key, q, hop seed) the Responder has issued
    harness   \* inputs and result of the stand-alone unwrap run

vars == <<now, ini, rsp, snf, sent, budget, issued, harness>>

\* time.ticks_ms / ticks_add / ticks_diff (wrap modulo TICKS_PERIOD)
ticks_ms == now % TICKS_PERIOD
ticks_add(t, d) == (t + d) % TICKS_PERIOD
ticks_diff(a, b) ==
    ((a - b + TICKS_PERIOD \div 2) % TICKS_PERIOD) - TICKS_PERIOD \div 2

slot_from_epoch(epoch_ms) ==
    LET d == ticks_diff(ticks_ms, epoch_ms)
    IN IF d < 0 THEN 0 - 1 ELSE d \div HOP_INTERVAL_MS

phase_in_epoch_slot_ms(epoch_ms) ==
    LET d == ticks_diff(ticks_ms, epoch_ms)
    IN IF d < 0 THEN 0 ELSE d % HOP_INTERVAL_MS

time_left_in_epoch_slot_ms(epoch_ms) ==
    HOP_INTERVAL_MS - phase_in_epoch_slot_ms(epoch_ms)

\* The sniffer's FREQ_MHZ as the file sets it; the file asks for it to be
\* edited to "match the target link".
FREQ_KHZ == 915000

NoFrame == [payload |-> None, rssi |-> NoneInt]
NoTx    == [payload |-> None, freq |-> 0, t0 |-> 0, ok |-> FALSE]

\* SX1276.send: TX-done is seen after the air time, or (on a link that can
\* fail) never within timeout.
TxDurations(timeout_ms) ==
    IF budget.lossy THEN {TxAirMs, timeout_ms + 1} ELSE {TxAirMs}
StartTx(payload, freq, d, timeout_ms) ==
    [payload |-> payload, freq |-> freq, t0 |-> now, ok |-> d <= timeout_ms]

\* SX1276.recv seen from the air: a node inside recv, tuned to the frame's
\* frequency since before the frame started, gets RX-done with the payload
\* and an RSSI reading, or RX-done with a CRC error, or misses the frame.
Hears(node, fr) ==
    node.pc = "recv" /\ node.freq = fr.freq /\ node.rx_t0 <= fr.t0

RxFrame(node, fr) ==
    {[node EXCEPT !.pc = "got", !.wake = now,
                  !.rx = [payload |-> fr.payload, rssi |-> r]] : r \in budget.rssi}

RxOutcomes(node, fr) ==
    IF ~Hears(node, fr) THEN {node}
    ELSE IF ~budget.lossy THEN RxFrame(node, fr)
    ELSE {node}
         \cup {[node EXCEPT !.pc = "got", !.rx = NoFrame, !.wake = now]}
         \cup RxFrame(node, fr)

\* ------------------------------------------------------------- frames
HelloFrame(nonce_hex) == << <<"hello", "1">>, <<"nonce", nonce_hex>> >>
KeyReplyFrame(ek_hex, nonce_hex, start_in) ==
    << <<"ek", ek_hex>>, <<"nonce", nonce_hex>>, <<"start_in", str_of(start_in)>> >>
DataFrame(iv_hex, ct_hex, counter, t_ms, slot) ==
    << <<"iv", iv_hex>>, <<"msg", ct_hex>>, <<"counter", str_of(counter)>>,
       <<"t", str_of(t_ms)>>, <<"kind", "data">>, <<"slot", str_of(slot)>> >>

\* enc_msg_cbc with the IV urandom(16) returned
enc_msg_cbc(key16, msg, iv) ==
    <<hexlify(iv), hexlify(aes_cbc_encrypt(key16, iv, pkcs7_pad(msg)))>>

InitNodesOn(sniffer_khz, channel) ==
    /\ ini = [pc |-> "top", wake |-> 0, nonce_ctr |-> 0, nonce_hex |-> None,
              session_key |-> None, hop_seed |-> NoneInt,
              fhss_epoch_ms |-> NoneInt, counter |-> 0, slot |-> NoneInt,
              freq |-> RENDEZVOUS_FREQ_KHZ, rx_t0 |-> 0, rx |-> NoFrame,
              tx |-> NoTx, log |-> "start", retuned |-> FALSE]
    /\ rsp = [pc |-> "top", wake |-> 0, key_ctr |-> 0,
              session_key |-> None, hop_seed |-> NoneInt,
              fhss_epoch_ms |-> NoneInt, freq |-> RENDEZVOUS_FREQ_KHZ,
              rx_t0 |-> 0, rx |-> NoFrame, tx |-> NoTx, log |-> "start",
              clear |-> None, ctr |-> NoneInt, decoded |-> {},
              retuned |-> FALSE]
    /\ snf = [pc |-> "recv", wake |-> 0, freq |-> sniffer_khz, rx_t0 |-> 0,
              rx |-> NoFrame, handshakes |-> <<>>, active_nonce |-> None,
              active_session_key |-> None, log |-> "start",
              msg_clear |-> None, seen |-> None, tx |-> NoTx]
    /\ sent = {}
    /\ budget = channel
    /\ issued = {}

\* A link that can lose frames, flag CRC errors, fail to finish a
\* transmission and report any of RssiValues.
LossyChannel(max_replays, max_time) ==
    [replays |-> max_replays, time |-> max_time, nonces |-> MaxNonce,
     lossy |-> TRUE, rssi |-> RssiValues]

InitNodes(sniffer_khz, max_replays, max_time) ==
    InitNodesOn(sniffer_khz, LossyChannel(max_replays, max_time))

InitProtocol(sniffer_khz, max_replays, max_time) ==
    now = 0 /\ InitNodes(sniffer_khz, max_replays, max_time)

OnAir(tx) == [payload |-> tx.payload, freq |-> tx.freq]

\* ---------------------------------------------------------- Initiator
\* Variant: the nonce is generated once and kept for the retries.
HandshakeStart_reuse(i, d) ==
    LET n == IF i.nonce_hex = None THEN i.nonce_ctr + 1 ELSE i.nonce_ctr
    IN [i EXCEPT !.pc = "hello_tx", !.nonce_ctr = n, !.nonce_hex = hexlify(n),
                 !.freq = RENDEZVOUS_FREQ_KHZ, !.wake = now + d,
                 !.tx = StartTx(HelloFrame(hexlify(n)), RENDEZVOUS_FREQ_KHZ,
                                d, SEND_TIMEOUT_MS)]

\* lora_sender.main, loop head to lora.send(hello): a new nonce from
\* urandom(8) (the nonce_ctr-th value it returns), retune, start sending.
HandshakeStart(i, d) ==
    LET n == i.nonce_ctr + 1
    IN [i EXCEPT !.pc = "hello_tx", !.nonce_ctr = n, !.nonce_hex = hexlify(n),
                 !.freq = RENDEZVOUS_FREQ_KHZ, !.retuned = TRUE, !.wake = now + d,
                 !.tx = StartTx(HelloFrame(hexlify(n)), RENDEZVOUS_FREQ_KHZ,
                                d, SEND_TIMEOUT_MS)]

\* Variant: the sleep grows with the number of attempts.
RetryAfterSleep_backoff(i, why) ==
    [i EXCEPT !.pc = "sleep_retry", !.wake = now + RETRY_SLEEP_MS * i.nonce_ctr,
              !.log = why, !.tx = NoTx, !.rx = NoFrame]

\* time.sleep_ms(200); continue
RetryAfterSleep(i, why) ==
    [i EXCEPT !.pc = "sleep_retry", !.wake = now + RETRY_SLEEP_MS,
              !.log = why, !.tx = NoTx, !.rx = NoFrame, !.retuned = FALSE]

\* continue, with no sleep (the nonce-mismatch branch)
RetryAtOnce(i, why) ==
    [i EXCEPT !.pc = "top", !.wake = now, !.log = why, !.rx = NoFrame,
              !.retuned = FALSE]

I_Top ==
    /\ ini.pc = "top"
    /\ IF ini.session_key = None
       THEN /\ ini.nonce_ctr < budget.nonces
            /\ \E d \in TxDurations(SEND_TIMEOUT_MS) : ini' = HandshakeStart(ini, d)
       ELSE ini' = [ini EXCEPT !.pc = "wait_center", !.wake = now]
    /\ UNCHANGED <<now, rsp, snf, sent, budget, issued, harness>>

I_HelloDone ==
    /\ ini.pc = "hello_tx" /\ now = ini.wake
    /\ IF ini.tx.ok
       THEN /\ ini' = [ini EXCEPT !.pc = "recv", !.log = "hello_sent",
                                  !.rx_t0 = now, !.rx = NoFrame, !.tx = NoTx,
                                  !.retuned = FALSE,
                                  !.wake = now + REPLY_TIMEOUT_MS + 1]
            /\ rsp' \in RxOutcomes(rsp, ini.tx)
            /\ snf' \in RxOutcomes(snf, ini.tx)
            /\ sent' = sent \cup {OnAir(ini.tx)}
       ELSE /\ ini' = RetryAfterSleep(ini, "tx_timeout")
            /\ UNCHANGED <<rsp, snf, sent>>
    /\ UNCHANGED <<now, budget, issued, harness>>

I_RecvTimeout ==
    /\ ini.pc = "recv" /\ now = ini.wake
    /\ ini' = RetryAfterSleep(ini, "no_reply")
    /\ UNCHANGED <<now, rsp, snf, sent, budget, issued, harness>>

\* Variant: any echoed nonce is accepted.
NonceMatches_any(i, kv) == TRUE

\* line 246: the echoed nonce is the nonce of the Hello just sent
NonceMatches(i, kv) == kv["nonce"] = i.nonce_hex

\* Variant: the Initiator starts its slots half a hop interval late.
HandshakeOk_late(i, epoch, u) ==
    [i EXCEPT !.fhss_epoch_ms = ticks_add(epoch, HOP_INTERVAL_MS \div 2),
              !.session_key = u.sess,
              !.hop_seed = derive_hop_seed(u.sess, u.q),
              !.log = "ok", !.rx = NoFrame, !.pc = "wait_center", !.wake = now,
              !.retuned = FALSE]

\* lines 257-263: the unwrap found the tag
HandshakeOk(i, epoch, u) ==
    [i EXCEPT !.fhss_epoch_ms = epoch, !.session_key = u.sess,
              !.hop_seed = derive_hop_seed(u.sess, u.q),
              !.log = "ok", !.rx = NoFrame, !.pc = "wait_center", !.wake = now,
              !.retuned = FALSE]

\* Variant: a failed unwrap falls through to the data phase.
HandshakeFailed_fallthrough(i, epoch) ==
    [i EXCEPT !.fhss_epoch_ms = epoch, !.session_key = None,
              !.log = "tag_mismatch", !.rx = NoFrame,
              !.pc = "wait_center", !.wake = now]

\* lines 264-267: no candidate matched; fhss_epoch_ms was assigned before
\* the unwrap and session_key is assigned None by it
HandshakeFailed(i, epoch) ==
    [RetryAfterSleep(i, "tag_mismatch") EXCEPT
        !.fhss_epoch_ms = epoch, !.session_key = None]

\* Variant: start_in is converted with no handler around it, so that a
\* value that is not a number ends the loop.
ProcessReply_unguarded(i) ==
    IF i.rx.payload = None THEN RetryAfterSleep(i, "no_reply")
    ELSE IF ~IsUtf8(i.rx.payload) THEN RetryAfterSleep(i, "error")
    ELSE LET kv == parse_kvs(i.rx.payload)
         IN IF ~(Has(kv, "ek") /\ Has(kv, "nonce") /\ Has(kv, "start_in"))
            THEN RetryAfterSleep(i, "missing")
            ELSE IF ~NonceMatches(i, kv)
            THEN RetryAtOnce(i, "nonce_mismatch")
            ELSE IF ~IsDec(kv["start_in"])
            THEN [i EXCEPT !.pc = "crashed", !.log = "error", !.rx = NoFrame]
            ELSE LET epoch == ticks_add(ticks_ms, int_of(kv["start_in"]))
                     u == unwrap_session_key_bruteforce(kv["ek"], kv["nonce"], i.rx.rssi)
                 IN IF u.err
                    THEN [RetryAfterSleep(i, "error") EXCEPT !.fhss_epoch_ms = epoch]
                    ELSE IF u.sess # None
                    THEN HandshakeOk(i, epoch, u)
                    ELSE HandshakeFailed(i, epoch)

\* lora_sender.main from the return of lora.recv to the next blocking call
ProcessReply(i) ==
    IF i.rx.payload = None THEN RetryAfterSleep(i, "no_reply")
    ELSE IF ~IsUtf8(i.rx.payload) THEN RetryAfterSleep(i, "error")
    ELSE LET kv == parse_kvs(i.rx.payload)
         IN IF ~(Has(kv, "ek") /\ Has(kv, "nonce") /\ Has(kv, "start_in"))
            THEN RetryAfterSleep(i, "missing")
            ELSE IF ~NonceMatches(i, kv)
            THEN RetryAtOnce(i, "nonce_mismatch")
            ELSE IF ~IsDec(kv["start_in"])
            THEN RetryAfterSleep(i, "error")
            ELSE LET epoch == ticks_add(ticks_ms, int_of(kv["start_in"]))
                     u == unwrap_session_key_bruteforce(kv["ek"], kv["nonce"], i.rx.rssi)
                 IN IF u.err
                    THEN [RetryAfterSleep(i, "error") EXCEPT !.fhss_epoch_ms = epoch]
                    ELSE IF u.sess # None
                    THEN HandshakeOk(i, epoch, u)
                    ELSE HandshakeFailed(i, epoch)

I_ReplyGot ==
    /\ ini.pc = "got"
    /\ ini' = ProcessReply(ini)
    /\ UNCHANGED <<now, rsp, snf, sent, budget, issued, harness>>

I_SleepRetry ==
    /\ ini.pc = "sleep_retry" /\ now = ini.wake
    /\ ini' = [ini EXCEPT !.pc = "top"]
    /\ UNCHANGED <<now, rsp, snf, sent, budget, issued, harness>>

\* Secure data: derive_msg_key, enc_msg_cbc, payload (lines 278-281)
BuildData(i, slot) ==
    LET msg_key == derive_msg_key(i.session_key, i.counter)
        e == enc_msg_cbc(msg_key, MESSAGE, <<"iv", i.counter>>)
    IN DataFrame(e[1], e[2], i.counter, ticks_ms, slot)

\* The polls "slot < 0: sleep_ms(25); continue" change nothing but the
\* time, so they are taken together: the sleep lasts until the first poll
\* at or after the epoch.
EpochPollSleep(epoch_ms) ==
    LET left == 0 - ticks_diff(ticks_ms, epoch_ms)
    IN ((left + EPOCH_POLL_MS - 1) \div EPOCH_POLL_MS) * EPOCH_POLL_MS

\* wait_until_slot_center, one turn of its loop, then lines 278-284
I_WaitCenter ==
    /\ ini.pc = "wait_center" /\ now = ini.wake
    /\ LET slot  == slot_from_epoch(ini.fhss_epoch_ms)
           phase == phase_in_epoch_slot_ms(ini.fhss_epoch_ms)
       IN IF slot < 0
          THEN ini' = [ini EXCEPT !.wake = now + EpochPollSleep(ini.fhss_epoch_ms)]
          ELSE IF Abs(phase - TX_CENTER_MS) <= TX_CENTER_TOL_MS
          THEN /\ ini.counter < MaxCounter
               /\ ini' = [ini EXCEPT !.pc = "settle", !.slot = slot,
                              !.freq = hop_freq_for_slot_seeded(ini.hop_seed, slot),
                              !.retuned = TRUE,
                              !.tx = [NoTx EXCEPT !.payload = BuildData(ini, slot)],
                              !.wake = now + TX_TUNE_SETTLE_MS]
          ELSE IF phase < TX_CENTER_MS
          THEN ini' = [ini EXCEPT !.wake = now + (TX_CENTER_MS - phase)]
          ELSE ini' = [ini EXCEPT !.wake = now + (HOP_INTERVAL_MS - phase) + TX_CENTER_MS]
    /\ UNCHANGED <<now, rsp, snf, sent, budget, issued, harness>>

I_Settle ==
    /\ ini.pc = "settle" /\ now = ini.wake
    /\ \E d \in TxDurations(SEND_TIMEOUT_MS) :
          ini' = [ini EXCEPT !.pc = "data_tx", !.wake = now + d,
                             !.tx = StartTx(ini.tx.payload, ini.freq, d, SEND_TIMEOUT_MS)]
    /\ UNCHANGED <<now, rsp, snf, sent, budget, issued, harness>>

\* Variant: the counter moves on only when the send succeeded.
DataSent_onlyok(i, next_pc, sleep_ms) ==
    [i EXCEPT !.pc = next_pc, !.counter = IF i.tx.ok THEN i.counter + 1 ELSE i.counter,
              !.tx = NoTx, !.retuned = FALSE,
              !.log = IF i.tx.ok THEN "data_sent" ELSE "data_timeout",
              !.wake = now + sleep_ms]

\* Variant: a Data send that times out drops the session, so that the
\* next pass of the loop starts a new handshake.
DataSent_rekey(i, next_pc, sleep_ms) ==
    [i EXCEPT !.pc = next_pc, !.counter = i.counter + 1, !.tx = NoTx,
              !.retuned = FALSE,
              !.session_key = IF i.tx.ok THEN i.session_key ELSE None,
              !.log = IF i.tx.ok THEN "data_sent" ELSE "data_timeout",
              !.wake = now + sleep_ms]

\* return of a Data send: counter += 1 whether or not the send succeeded
DataSent(i, next_pc, sleep_ms) ==
    [i EXCEPT !.pc = next_pc, !.counter = i.counter + 1, !.tx = NoTx,
              !.retuned = FALSE,
              !.log = IF i.tx.ok THEN "data_sent" ELSE "data_timeout",
              !.wake = now + sleep_ms]

I_DataDone ==
    /\ ini.pc = "data_tx" /\ now = ini.wake
    /\ ini' = DataSent(ini, "rep_sleep", REPEAT_SLEEP_MS)
    /\ IF ini.tx.ok
       THEN /\ rsp' \in RxOutcomes(rsp, ini.tx)
            /\ snf' \in RxOutcomes(snf, ini.tx)
            /\ sent' = sent \cup {OnAir(ini.tx)}
       ELSE UNCHANGED <<rsp, snf, sent>>
    /\ UNCHANGED <<now, budget, issued, harness>>

\* the optional repeat: sent whenever the slot has not changed
RepeatInSlot(i) == slot_from_epoch(i.fhss_epoch_ms) = i.slot

I_RepSleep ==
    /\ ini.pc = "rep_sleep" /\ now = ini.wake
    /\ IF RepeatInSlot(ini)
       THEN /\ ini.counter < MaxCounter
            /\ \E d \in TxDurations(SEND_TIMEOUT_MS) :
                  ini' = [ini EXCEPT !.pc = "rep_tx", !.wake = now + d,
                              !.tx = StartTx(BuildData(ini, ini.slot), ini.freq,
                                             d, SEND_TIMEOUT_MS)]
       ELSE ini' = [ini EXCEPT !.pc = "loop_sleep", !.wake = now + LOOP_SLEEP_MS]
    /\ UNCHANGED <<now, rsp, snf, sent, budget, issued, harness>>

I_RepDone ==
    /\ ini.pc = "rep_tx" /\ now = ini.wake
    /\ ini' = DataSent(ini, "loop_sleep", LOOP_SLEEP_MS)
    /\ IF ini.tx.ok
       THEN /\ rsp' \in RxOutcomes(rsp, ini.tx)
            /\ snf' \in RxOutcomes(snf, ini.tx)
            /\ sent' = sent \cup {OnAir(ini.tx)}
       ELSE UNCHANGED <<rsp, snf, sent>>
    /\ UNCHANGED <<now, budget, issued, harness>>

I_LoopSleep ==
    /\ ini.pc = "loop_sleep" /\ now = ini.wake
    /\ ini' = [ini EXCEPT !.pc = "top"]
    /\ UNCHANGED <<now, rsp, snf, sent, budget, issued, harness>>

\* ---------------------------------------------------------- Responder
\* Variant: hops as soon as a session exists, epoch reached or not.
ListenFreq_nopark(r) ==
    IF r.session_key = None THEN RENDEZVOUS_FREQ_KHZ
    ELSE rx_hop_freq_for_slot_seeded(r.hop_seed, slot_from_epoch(r.fhss_epoch_ms))

\* Variant: the Responder listens on the rendezvous channel in every slot.
ListenFreq_rendezvous(r) == RENDEZVOUS_FREQ_KHZ

\* lora_receiver.main lines 154-168: the channel and the timeout of the
\* next recv.
ListenFreq(r) ==
    IF r.session_key = None THEN RENDEZVOUS_FREQ_KHZ
    ELSE LET slot == slot_from_epoch(r.fhss_epoch_ms)
         IN IF slot < 0 THEN RENDEZVOUS_FREQ_KHZ
            ELSE rx_hop_freq_for_slot_seeded(r.hop_seed, slot)

\* Variant: every hop listen lasts a whole hop interval plus the guard.
ListenTimeout_wholeslot(r) ==
    IF r.session_key = None THEN LISTEN_TIMEOUT_MS
    ELSE IF slot_from_epoch(r.fhss_epoch_ms) < 0 THEN PARKED_TIMEOUT_MS
    ELSE HOP_INTERVAL_MS + HOP_GUARD_MS

\* lora_receiver.main lines 157, 164, 168: the timeout of the next recv.
ListenTimeout(r) ==
    IF r.session_key = None THEN LISTEN_TIMEOUT_MS
    ELSE IF slot_from_epoch(r.fhss_epoch_ms) < 0 THEN PARKED_TIMEOUT_MS
    ELSE time_left_in_epoch_slot_ms(r.fhss_epoch_ms) + HOP_GUARD_MS

R_Top ==
    /\ rsp.pc = "top"
    /\ rsp' = [rsp EXCEPT !.pc = "recv", !.freq = ListenFreq(rsp), !.retuned = TRUE,
                          !.rx_t0 = now, !.rx = NoFrame,
                          !.wake = now + ListenTimeout(rsp) + 1]
    /\ UNCHANGED <<now, ini, snf, sent, budget, issued, harness>>

R_RecvTimeout ==
    /\ rsp.pc = "recv" /\ now = rsp.wake
    /\ rsp' = [rsp EXCEPT !.pc = "top", !.log = "timeout", !.retuned = FALSE]
    /\ UNCHANGED <<now, ini, snf, sent, budget, issued, harness>>

IsHello(kv) == Has(kv, "hello") /\ kv["hello"] = "1" /\ Has(kv, "nonce")
IsData(kv)  == Has(kv, "kind") /\ kv["kind"] = "data" /\ Has(kv, "iv") /\ Has(kv, "msg")

\* Variant: a Responder that already holds a session keeps it and only
\* wraps the fresh key into the reply.
AnswerHello_keepfirst(r, kv, sk) ==
    LET nonce_hex == kv["nonce"]
        nonce == unhexlify(nonce_hex)
        q == q_rssi(r.rx.rssi, 1)
        ek == WrapSessionKey(sk, q, nonce)
        kept == IF r.session_key = None THEN sk ELSE r.session_key
    IN [session_key |-> kept, q |-> q, hop_seed |-> rx_derive_hop_seed(kept, q),
        fhss_epoch_ms |-> ticks_add(ticks_ms, START_IN_MS), nonce_hex |-> nonce_hex,
        reply |-> KeyReplyFrame(hexlify(ek), nonce_hex, START_IN_MS)]

\* Variant: a Responder that already holds a session keeps its epoch.
AnswerHello_keepepoch(r, kv, sk) ==
    LET nonce_hex == kv["nonce"]
        nonce == unhexlify(nonce_hex)
        q == q_rssi(r.rx.rssi, 1)
        ek == WrapSessionKey(sk, q, nonce)
    IN [session_key |-> sk, q |-> q, hop_seed |-> rx_derive_hop_seed(sk, q),
        fhss_epoch_ms |-> IF r.session_key = None
                          THEN ticks_add(ticks_ms, START_IN_MS)
                          ELSE r.fhss_epoch_ms,
        nonce_hex |-> nonce_hex,
        reply |-> KeyReplyFrame(hexlify(ek), nonce_hex, START_IN_MS)]

\* HELLO branch, lines 191-219: the session the Responder installs and the
\* reply it builds, for the session key urandom(16) returned.
AnswerHello(r, kv, sk) ==
    LET nonce_hex == kv["nonce"]
        nonce == unhexlify(nonce_hex)
        q == q_rssi(r.rx.rssi, 1)
        ek == WrapSessionKey(sk, q, nonce)
    IN [session_key |-> sk, q |-> q, hop_seed |-> rx_derive_hop_seed(sk, q),
        fhss_epoch_ms |-> ticks_add(ticks_ms, START_IN_MS), nonce_hex |-> nonce_hex,
        reply |-> KeyReplyFrame(hexlify(ek), nonce_hex, START_IN_MS)]

\* Variant: the key is derived from the counter the Responder expects next,
\* one past the last counter it decoded.
DecodeData_expected(r, kv) ==
    IF ~IsDec(kv["counter"]) THEN [ok |-> FALSE, val |-> <<>>]
    ELSE dec_msg_cbc(rx_derive_msg_key(r.session_key, r.ctr + 1), kv["iv"], kv["msg"])

\* Data branch, lines 229-246
DecodeData(r, kv) ==
    IF ~IsDec(kv["counter"]) THEN [ok |-> FALSE, val |-> <<>>]
    ELSE dec_msg_cbc(rx_derive_msg_key(r.session_key, int_of(kv["counter"])),
                     kv["iv"], kv["msg"])

\* Variant: the nonce is used as it comes.
NonceAccepted_any(nonce_hex) == TRUE

\* lines 198-202: the only test of the nonce is that unhexlify takes it
NonceAccepted(nonce_hex) == IsHex(nonce_hex)

R_Got ==
    /\ rsp.pc = "got"
    /\ LET kv == IF rsp.rx.payload = None THEN <<>> ELSE parse_kvs(rsp.rx.payload)
       IN IF rsp.rx.payload = None
          THEN /\ rsp' = [rsp EXCEPT !.pc = "top", !.log = "timeout", !.rx = NoFrame,
                                  !.retuned = FALSE]
               /\ UNCHANGED issued
          ELSE IF ~IsUtf8(rsp.rx.payload)
          THEN /\ rsp' = [rsp EXCEPT !.pc = "top", !.log = "non_utf8", !.rx = NoFrame,
                                  !.retuned = FALSE]
               /\ UNCHANGED issued
          ELSE IF IsHello(kv)
          THEN IF ~NonceAccepted(kv["nonce"])
               THEN /\ rsp' = [rsp EXCEPT !.pc = "top", !.log = "bad_nonce", !.rx = NoFrame,
                                       !.retuned = FALSE]
                    /\ UNCHANGED issued
               ELSE LET a == AnswerHello(rsp, kv, <<"sk", rsp.key_ctr + 1>>)
                    IN /\ \E d \in TxDurations(SEND_TIMEOUT_MS) :
                             rsp' = [rsp EXCEPT !.pc = "reply_tx", !.log = "hello",
                                        !.retuned = FALSE,
                                        !.key_ctr = rsp.key_ctr + 1,
                                        !.session_key = a.session_key,
                                        !.hop_seed = a.hop_seed,
                                        !.fhss_epoch_ms = a.fhss_epoch_ms,
                                        !.rx = NoFrame, !.wake = now + d,
                                        !.tx = StartTx(a.reply, rsp.freq, d, SEND_TIMEOUT_MS)]
                       /\ issued' = issued \cup
                             {[nonce_hex |-> a.nonce_hex, session_key |-> a.session_key,
                               q |-> a.q, hop_seed |-> a.hop_seed]}
          ELSE IF rsp.session_key # None /\ IsData(kv) /\ Has(kv, "counter")
          THEN LET c == DecodeData(rsp, kv)
               IN /\ rsp' = [rsp EXCEPT !.pc = "top", !.rx = NoFrame, !.retuned = FALSE,
                                !.log = IF c.ok THEN "data_ok" ELSE "decrypt_error",
                                !.clear = IF c.ok THEN c.val ELSE rsp.clear,
                                !.ctr = IF c.ok THEN int_of(kv["counter"]) ELSE rsp.ctr,
                                !.decoded = IF c.ok
                                            THEN rsp.decoded \cup {int_of(kv["counter"])}
                                            ELSE rsp.decoded]
                  /\ UNCHANGED issued
          ELSE /\ rsp' = [rsp EXCEPT !.pc = "top", !.log = "other", !.rx = NoFrame,
                                  !.retuned = FALSE]
               /\ UNCHANGED issued
    /\ UNCHANGED <<now, ini, snf, sent, budget, harness>>

\* Variant: a KeyReply whose send timed out takes the session back.
R_ReplyDone_rollback ==
    /\ rsp.pc = "reply_tx" /\ now = rsp.wake
    /\ IF rsp.tx.ok
       THEN /\ rsp' = [rsp EXCEPT !.pc = "top", !.tx = NoTx, !.retuned = FALSE,
                               !.log = "reply_sent"]
            /\ ini' \in RxOutcomes(ini, rsp.tx)
            /\ snf' \in RxOutcomes(snf, rsp.tx)
            /\ sent' = sent \cup {OnAir(rsp.tx)}
       ELSE /\ rsp' = [rsp EXCEPT !.pc = "top", !.tx = NoTx, !.retuned = FALSE,
                               !.log = "reply_timeout", !.session_key = None,
                               !.hop_seed = NoneInt, !.fhss_epoch_ms = NoneInt]
            /\ UNCHANGED <<ini, snf, sent>>
    /\ UNCHANGED <<now, budget, issued, harness>>

R_ReplyDone ==
    /\ rsp.pc = "reply_tx" /\ now = rsp.wake
    /\ rsp' = [rsp EXCEPT !.pc = "top", !.tx = NoTx, !.retuned = FALSE,
                          !.log = IF rsp.tx.ok THEN "reply_sent" ELSE "reply_timeout"]
    /\ IF rsp.tx.ok
       THEN /\ ini' \in RxOutcomes(ini, rsp.tx)
            /\ snf' \in RxOutcomes(snf, rsp.tx)
            /\ sent' = sent \cup {OnAir(rsp.tx)}
       ELSE UNCHANGED <<ini, snf, sent>>
    /\ UNCHANGED <<now, budget, issued, harness>>

\* ------------------------------------------------------------ Sniffer
NewHs == [hello_seen |-> FALSE, ek_hex |-> None, sess |-> None]
HsGet(h, nonce_hex) == IF nonce_hex \in DOMAIN h THEN h[nonce_hex] ELSE NewHs
HsPut(h, nonce_hex, hs) ==
    [n \in (DOMAIN h) \cup {nonce_hex} |-> IF n = nonce_hex THEN hs ELSE h[n]]

\* Variant: a Hello with a new nonce drops the key in use.
note_hello_clears(s, nonce_hex) ==
    [s EXCEPT !.handshakes =
                 HsPut(s.handshakes, nonce_hex,
                       [HsGet(s.handshakes, nonce_hex) EXCEPT !.hello_seen = TRUE]),
              !.active_nonce =
                 IF s.active_nonce # nonce_hex THEN None ELSE s.active_nonce,
              !.active_session_key =
                 IF s.active_nonce # nonce_hex THEN None ELSE s.active_session_key]

note_hello(s, nonce_hex) ==
    [s EXCEPT !.handshakes =
        HsPut(s.handshakes, nonce_hex,
              [HsGet(s.handshakes, nonce_hex) EXCEPT !.hello_seen = TRUE])]

note_ek(s, nonce_hex, ek_hex) ==
    [s EXCEPT !.handshakes =
        HsPut(s.handshakes, nonce_hex,
              [HsGet(s.handshakes, nonce_hex) EXCEPT !.ek_hex = ek_hex])]

\* Variant: the recovered key is filed under the nonce but not made active.
try_recover_key_not_active(s, nonce_hex) ==
    LET hs == HsGet(s.handshakes, nonce_hex)
    IN IF nonce_hex \notin DOMAIN s.handshakes \/ hs.ek_hex = None
       THEN [s EXCEPT !.log = "no_ek"]
       ELSE IF ~(IsHex(nonce_hex) /\ IsHex(hs.ek_hex))
       THEN [s EXCEPT !.log = "bad_hex"]
       ELSE LET nonce == unhexlify(nonce_hex)
                ek == unhexlify(hs.ek_hex)
                hits == {q \in Q_MIN..Q_MAX : TagMatches(ek, nonce, q)}
            IN IF hits = {} THEN [s EXCEPT !.log = "failed"]
               ELSE LET q == CHOOSE x \in hits : \A y \in hits : x <= y
                        sess == aes_ecb_decrypt(kdf_from_rssi_and_nonce(q, nonce), ek)[1]
                    IN [s EXCEPT !.handshakes =
                                    HsPut(s.handshakes, nonce_hex, [hs EXCEPT !.sess = sess]),
                                 !.log = "recovered"]

\* Variant: a failed recovery drops the key in use.
try_recover_key_clears(s, nonce_hex) ==
    LET hs == HsGet(s.handshakes, nonce_hex)
    IN IF nonce_hex \notin DOMAIN s.handshakes \/ hs.ek_hex = None
       THEN [s EXCEPT !.log = "no_ek"]
       ELSE IF ~(IsHex(nonce_hex) /\ IsHex(hs.ek_hex))
       THEN [s EXCEPT !.log = "bad_hex"]
       ELSE LET nonce == unhexlify(nonce_hex)
                ek == unhexlify(hs.ek_hex)
                hits == {q \in Q_MIN..Q_MAX : TagMatches(ek, nonce, q)}
            IN IF hits = {}
               THEN [s EXCEPT !.log = "failed", !.active_nonce = None,
                              !.active_session_key = None]
               ELSE LET q == CHOOSE x \in hits : \A y \in hits : x <= y
                        sess == aes_ecb_decrypt(kdf_from_rssi_and_nonce(q, nonce), ek)[1]
                    IN [s EXCEPT !.handshakes =
                                    HsPut(s.handshakes, nonce_hex, [hs EXCEPT !.sess = sess]),
                                 !.active_nonce = nonce_hex,
                                 !.active_session_key = sess,
                                 !.log = "recovered"]

\* try_recover_key: q in range(Q_MIN, Q_MAX + 1), first tag match wins.
try_recover_key(s, nonce_hex) ==
    LET hs == HsGet(s.handshakes, nonce_hex)
    IN IF nonce_hex \notin DOMAIN s.handshakes \/ hs.ek_hex = None
       THEN [s EXCEPT !.log = "no_ek"]
       ELSE IF ~(IsHex(nonce_hex) /\ IsHex(hs.ek_hex))
       THEN [s EXCEPT !.log = "bad_hex"]
       ELSE LET nonce == unhexlify(nonce_hex)
                ek == unhexlify(hs.ek_hex)
                hits == {q \in Q_MIN..Q_MAX : TagMatches(ek, nonce, q)}
            IN IF hits = {} THEN [s EXCEPT !.log = "failed"]
               ELSE LET q == CHOOSE x \in hits : \A y \in hits : x <= y
                        sess == aes_ecb_decrypt(kdf_from_rssi_and_nonce(q, nonce), ek)[1]
                    IN [s EXCEPT !.handshakes =
                                    HsPut(s.handshakes, nonce_hex, [hs EXCEPT !.sess = sess]),
                                 !.active_nonce = nonce_hex,
                                 !.active_session_key = sess,
                                 !.log = "recovered"]

\* Variant: after a Data frame the Sniffer retunes to the first channel of
\* the hop table.
SniffData_follow(s, kv) ==
    IF s.active_session_key = None THEN [s EXCEPT !.log = "no-key", !.freq = FREQ_TABLE_KHZ[1]]
    ELSE LET c == dec_msg_cbc(s.active_session_key, kv["iv"], kv["msg"])
         IN IF c.ok THEN [s EXCEPT !.log = "dec-ok", !.msg_clear = c.val,
                                   !.freq = FREQ_TABLE_KHZ[1]]
            ELSE [s EXCEPT !.log = "dec-fail", !.freq = FREQ_TABLE_KHZ[1]]

\* DATA branch, lines 175-196
SniffData(s, kv) ==
    IF s.active_session_key = None THEN [s EXCEPT !.log = "no-key"]
    ELSE LET c == dec_msg_cbc(s.active_session_key, kv["iv"], kv["msg"])
         IN IF c.ok THEN [s EXCEPT !.log = "dec-ok", !.msg_clear = c.val]
            ELSE [s EXCEPT !.log = "dec-fail"]

\* eavesdrop.main, one turn of the loop after lora.recv returned
SniffFrame(s) ==
    IF s.rx.payload = None THEN [s EXCEPT !.log = "crc"]
    ELSE IF ~IsUtf8(s.rx.payload) THEN [s EXCEPT !.log = "bin"]
    ELSE LET kv == parse_kvs(s.rx.payload)
         IN IF IsHello(kv) THEN [note_hello(s, kv["nonce"]) EXCEPT !.log = "hello"]
            ELSE IF Has(kv, "ek") /\ Has(kv, "nonce")
            THEN try_recover_key(note_ek(s, kv["nonce"], kv["ek"]), kv["nonce"])
            ELSE IF IsData(kv) THEN SniffData(s, kv)
            ELSE [s EXCEPT !.log = "other"]

S_Got ==
    /\ snf.pc = "got"
    /\ snf' = [SniffFrame(snf) EXCEPT !.pc = "recv", !.rx_t0 = now,
                                      !.seen = snf.rx.payload, !.rx = NoFrame]
    /\ UNCHANGED <<now, ini, rsp, sent, budget, issued, harness>>

\* -------------------------------------------------------- environment
\* Cross-talk / replay: a frame that was on the air is put on the air
\* again, on the channel it was first sent on, and reaches every node that
\* is listening there.
EnvReplay ==
    /\ budget.replays > 0
    /\ \E f \in sent :
          LET fr == [payload |-> f.payload, freq |-> f.freq, t0 |-> now, ok |-> TRUE]
          IN /\ Hears(ini, fr) \/ Hears(rsp, fr) \/ Hears(snf, fr)
             /\ ini' \in (IF Hears(ini, fr) THEN RxFrame(ini, fr) ELSE {ini})
             /\ rsp' \in (IF Hears(rsp, fr) THEN RxFrame(rsp, fr) ELSE {rsp})
             /\ snf' \in (IF Hears(snf, fr) THEN RxFrame(snf, fr) ELSE {snf})
    /\ budget' = [budget EXCEPT !.replays = budget.replays - 1]
    /\ UNCHANGED <<now, sent, issued, harness>>

\* A recorded Data frame is sent again, on the channel the Responder is
\* listening on at that moment.
EnvReplayData ==
    /\ budget.replays > 0
    /\ \E f \in sent :
          LET fr == [payload |-> f.payload, freq |-> rsp.freq, t0 |-> now, ok |-> TRUE]
          IN /\ IsData(parse_kvs(f.payload))
             /\ Hears(rsp, fr)
             /\ rsp' \in RxFrame(rsp, fr)
             /\ ini' \in (IF Hears(ini, fr) THEN RxFrame(ini, fr) ELSE {ini})
             /\ snf' \in (IF Hears(snf, fr) THEN RxFrame(snf, fr) ELSE {snf})
    /\ budget' = [budget EXCEPT !.replays = budget.replays - 1]
    /\ UNCHANGED <<now, sent, issued, harness>>

\* Noise: the radio hands the nodes parked on the rendezvous channel a
\* frame that no node of the link built.  NotText is a field value that
\* is neither hexadecimal nor decimal; a part of three elements is not
\* UTF-8; a ciphertext is named by the key and the buffer it decrypts to.
NotText == <<"txt", 0>>
NonUtf8Frame == << <<"raw", 255, 254>> >>
NoiseEk == hexlify(WrapSessionKey(<<"sk", 0>>, 0, 0))
NoiseIv == <<"iv", 0>>
Buf16(fill, tail) == [i \in 1..(16 - Len(tail)) |-> fill] \o tail
PadBuffers ==
    {<<>>, Buf16(72, <<0>>), Buf16(72, <<17>>), Buf16(72, <<2, 2>>),
     Buf16(72, <<3, 2>>), Buf16(16, <<16>>), Buf16(72, <<16>>)}
NoiseCipher(key16, b) == [k |-> key16, iv |-> NoiseIv, pt |-> b]
NoiseData(key16, b) ==
    DataFrame(hexlify(NoiseIv), hexlify(NoiseCipher(key16, b)), 0, 0, 0)
\* eavesdrop.py, static responder: "ek={},nonce={}" with no start_in, the
\* key wrapped under the q of the reading the noise frames arrive with.
StaticKeyReply(nonce_hex) ==
    << <<"ek", hexlify(WrapSessionKey(<<"sk", 0>>, q_rssi(Q_MIN, 1), unhexlify(nonce_hex)))>>,
       <<"nonce", nonce_hex>> >>
HelloNoise ==
    {<< <<"hello", "1">> >>, << <<"hello", "1">>, <<"nonce", NotText>> >>}
ReplyNoise(nonce_hex) ==
    {<< <<"nonce", nonce_hex>>, <<"start_in", str_of(START_IN_MS)>> >>,
     << <<"ek", NoiseEk>>, <<"start_in", str_of(START_IN_MS)>> >>,
     << <<"ek", NoiseEk>>, <<"nonce", nonce_hex>> >>,
     << <<"ek", NoiseEk>>, <<"nonce", nonce_hex>>, <<"start_in", NotText>> >>,
     << <<"ek", NotText>>, <<"nonce", nonce_hex>>, <<"start_in", str_of(START_IN_MS)>> >>,
     StaticKeyReply(nonce_hex)}
DataNoise ==
    LET iv == <<"iv", hexlify(NoiseIv)>>
        msg == <<"msg", hexlify(NoiseCipher(derive_msg_key(<<"sk", 0>>, 0), pkcs7_pad(MESSAGE)))>>
        counter == <<"counter", str_of(0)>>
        kind == <<"kind", "data">>
    IN {<<msg, counter, kind>>, <<iv, counter, kind>>, <<iv, msg, kind>>,
        <<iv, msg, <<"counter", NotText>>, kind>>,
        << <<"iv", NotText>>, msg, counter, kind>>,
        <<iv, <<"msg", NotText>>, counter, kind>>}
PaddingNoise(keys, buffers) ==
    {NoiseData(k, b) : k \in {x \in keys : x # None}, b \in buffers}
RspMsgKey == IF rsp.session_key = None THEN None ELSE derive_msg_key(rsp.session_key, 0)
PaddingFrames == PaddingNoise({RspMsgKey, snf.active_session_key}, PadBuffers)
MalformedFrames ==
    {NonUtf8Frame} \cup HelloNoise \cup DataNoise
        \cup ReplyNoise(IF ini.nonce_hex = None THEN hexlify(0) ELSE ini.nonce_hex)
        \cup PaddingNoise({RspMsgKey}, {<<>>, Buf16(72, <<3, 2>>)})
\* A nonce of a length other than the 8 bytes urandom(8) returns is named
\* by its length: the byte string of len bytes is 0 - 1 - len, and its
\* hexlify has two characters per byte.
OddNonce(len) == 0 - 1 - len
NonceLen(b) == IF b < 0 THEN 0 - 1 - b ELSE 8
HexLen(h) == 2 * NonceLen(unhexlify(h))
NonceLengthFrames ==
    {HelloFrame(hexlify(OddNonce(len))) : len \in {0, 1, 9}}
RxNoise(node, fr) ==
    IF Hears(node, fr) THEN {x \in RxFrame(node, fr) : x.rx.rssi = Q_MIN} ELSE {node}

EnvNoise(frames) ==
    /\ budget.replays > 0
    /\ \E p \in frames :
          LET fr == [payload |-> p, freq |-> RENDEZVOUS_FREQ_KHZ, t0 |-> now, ok |-> TRUE]
          IN /\ Hears(ini, fr) \/ Hears(rsp, fr) \/ Hears(snf, fr)
             /\ ini' \in RxNoise(ini, fr)
             /\ rsp' \in RxNoise(rsp, fr)
             /\ snf' \in RxNoise(snf, fr)
    /\ budget' = [budget EXCEPT !.replays = budget.replays - 1]
    /\ UNCHANGED <<now, sent, issued, harness>>

\* Time passes only while every node is inside a blocking call, and only
\* up to the first instant at which one of the calls returns.
IniBlocked == ini.pc \notin {"top", "got"} /\ ini.wake > now
RspBlocked == rsp.pc \in {"recv", "reply_tx"} /\ rsp.wake > now
SnfBlocked == snf.pc = "recv"

Tick ==
    /\ IniBlocked /\ RspBlocked /\ SnfBlocked
    /\ now' = Min2(ini.wake, rsp.wake)
    /\ now' <= budget.time
    /\ UNCHANGED <<ini, rsp, snf, sent, budget, issued, harness>>

\* --------------------------------------------- stand-alone unwrap run
\* The wrap of lora_receiver.py followed by the unwrap of lora_sender.py on
\* inputs drawn at Init: nonce, session key, the Responder's reading R of
\* the Hello and the Initiator's reading r of the reply.
NoHarness == [phase |-> "off"]
HarnessRssi == {0 - 73, 0 - 8, 0}
HarnessInputs ==
    {[phase |-> "in", nonce |-> n, sk |-> <<"sk", k>>, R |-> r + d, r |-> r,
      ek_hex |-> None, out |-> None] :
        n \in 1..2, k \in 1..2, r \in HarnessRssi, d \in (0 - HarnessSpan)..HarnessSpan}

H_Wrap ==
    /\ harness.phase = "in"
    /\ harness' = [harness EXCEPT !.phase = "wrapped",
                      !.ek_hex = hexlify(WrapSessionKey(harness.sk,
                                     q_rssi(harness.R, 1), harness.nonce))]
    /\ UNCHANGED <<now, ini, rsp, snf, sent, budget, issued>>

H_Unwrap ==
    /\ harness.phase = "wrapped"
    /\ harness' = [harness EXCEPT !.phase = "out",
                      !.out = unwrap_session_key_bruteforce(harness.ek_hex,
                                  hexlify(harness.nonce), harness.r)]
    /\ UNCHANGED <<now, ini, rsp, snf, sent, budget, issued>>

\* ------------------------------------------- stand-alone hop schedule
\* derive_hop_seed and hop_idx_for_slot of the two files on the same
\* (session key, q, slot), drawn at Init.
HopInputs ==
    {[phase |-> "hop", sk |-> <<"sk", k>>, q |-> q, slot |-> sl,
      tx |-> None, rx |-> None] :
        k \in 1..3, q \in RssiValues, sl \in 0..MaxSlot}

H_HopTx ==
    /\ harness.phase = "hop" /\ harness.tx = None
    /\ LET seed == derive_hop_seed(harness.sk, harness.q)
       IN harness' = [harness EXCEPT !.tx =
                         [seed |-> seed, idx |-> hop_idx_for_slot(seed, harness.slot),
                          freq |-> hop_freq_for_slot_seeded(seed, harness.slot)]]
    /\ UNCHANGED <<now, ini, rsp, snf, sent, budget, issued>>

H_HopRx ==
    /\ harness.phase = "hop" /\ harness.rx = None
    /\ LET seed == rx_derive_hop_seed(harness.sk, harness.q)
       IN harness' = [harness EXCEPT !.rx =
                         [seed |-> seed, idx |-> rx_hop_idx_for_slot(seed, harness.slot),
                          freq |-> rx_hop_freq_for_slot_seeded(seed, harness.slot)]]
    /\ UNCHANGED <<now, ini, rsp, snf, sent, budget, issued>>

\* ------------------------------------------------- static hop scheduler
\* The time-slot scheduler of the RX script and the TX script
\* (unnamed/part_000) and of the static responder (eavesdrop.py).
STATIC_HOP_INTERVAL_MS == 10000
SECRET_SEED == 305441741
LCG_MUL == 1103515245
LCG_INC == 12345
RX_STATIC_TABLE_KHZ   == <<914000, 914300, 914600, 914900, 915200, 915500, 915800, 916100>>
TX_STATIC_TABLE_KHZ   == <<914000, 914300, 914600, 914900, 915200, 915500, 915800, 916100>>
RESP_STATIC_TABLE_KHZ == <<914000, 914300, 914600, 914900, 915200, 915500, 915800, 916100>>

\* a ^ b on naturals
RECURSIVE BitXor(_, _)
BitXor(a, b) ==
    IF a = 0 THEN b
    ELSE IF b = 0 THEN a
    ELSE LET bit(k) == (((a \div k) % 2) + ((b \div k) % 2)) % 2
         IN bit(1) + 2 * bit(2) + 4 * bit(4) + 8 * bit(8)
              + 16 * bit(16) + 32 * bit(32) + 64 * bit(64) + 128 * bit(128)
              + 256 * BitXor(a \div 256, b \div 256)

\* (a + b) & 0x7FFFFFFF for a, b in 0 .. 2^31 - 1, without leaving 31 bits
AddMod31(a, b) ==
    LET H == 2^30
        low == (a % H) + (b % H)
        top == ((a \div H) + (b \div H) + (low \div H)) % 2
    IN (low % H) + top * H

\* (a * x) & 0x7FFFFFFF, eight bits of x at a time
RECURSIVE MulMod31(_, _)
MulMod31(a, x) ==
    IF x = 0 THEN 0
    ELSE LET L == 2^23
             d == x % 256
             upper == (MulMod31(a, x \div 256) % L) * 256
             digit == AddMod31((a % L) * d, (((a \div L) * d) % 256) * L)
         IN AddMod31(upper, digit)

\* RX script: _prn_from_slot and get_hop_frequency at tick count t
rx_prn_from_slot(slot) ==
    AddMod31(MulMod31(LCG_MUL, BitXor(SECRET_SEED, slot)), LCG_INC)
rx_get_hop_frequency(t) ==
    LET slot == t \div STATIC_HOP_INTERVAL_MS
        prn == rx_prn_from_slot(slot)
        idx == prn % Len(RX_STATIC_TABLE_KHZ)
    IN [slot |-> slot, prn |-> prn, idx |-> idx, freq |-> RX_STATIC_TABLE_KHZ[idx + 1]]

\* Variant: the TX script adds the slot to the seed.
tx_prn_plus(slot) ==
    AddMod31(MulMod31(LCG_MUL, SECRET_SEED + slot), LCG_INC)

\* TX script
tx_prn_from_slot(slot) ==
    AddMod31(MulMod31(LCG_MUL, BitXor(SECRET_SEED, slot)), LCG_INC)
tx_get_hop_frequency(t) ==
    LET slot == t \div STATIC_HOP_INTERVAL_MS
        prn == tx_prn_from_slot(slot)
        idx == prn % Len(TX_STATIC_TABLE_KHZ)
    IN [slot |-> slot, prn |-> prn, idx |-> idx, freq |-> TX_STATIC_TABLE_KHZ[idx + 1]]

\* static responder
resp_prn_from_slot(slot) ==
    AddMod31(MulMod31(LCG_MUL, BitXor(SECRET_SEED, slot)), LCG_INC)
resp_get_hop_frequency(t) ==
    LET slot == t \div STATIC_HOP_INTERVAL_MS
        prn == resp_prn_from_slot(slot)
        idx == prn % Len(RESP_STATIC_TABLE_KHZ)
    IN [slot |-> slot, prn |-> prn, idx |-> idx, freq |-> RESP_STATIC_TABLE_KHZ[idx + 1]]

\* A run of the schedulers: at every poll instant each node computes its
\* channel once (in any order), then StaticStep ms pass.  The epoch-based
\* slot_from_epoch is polled beside them, with the epoch at the start.
StaticStarts ==
    {k * STATIC_HOP_INTERVAL_MS : k \in 0..MaxStart} \cup {TICKS_PERIOD - 20000}
StaticNodes == {"rx", "tx", "resp", "ep"}
NoHop == [slot |-> NoneInt, prn |-> 0, idx |-> 0, freq |-> 0, prev |-> NoneInt]
InitStaticHarness ==
    harness = [phase |-> "static", start |-> now, epoch |-> now % TICKS_PERIOD,
               done |-> {}, rx |-> NoHop, tx |-> NoHop, resp |-> NoHop, ep |-> NoHop]
Polled(old, new) ==
    [slot |-> new.slot, prn |-> new.prn, idx |-> new.idx, freq |-> new.freq,
     prev |-> old.slot]

S_RxHop ==
    /\ harness.phase = "static" /\ "rx" \notin harness.done
    /\ harness' = [harness EXCEPT !.done = harness.done \cup {"rx"},
                      !.rx = Polled(harness.rx, rx_get_hop_frequency(ticks_ms))]
    /\ UNCHANGED <<now, ini, rsp, snf, sent, budget, issued>>

S_TxHop ==
    /\ harness.phase = "static" /\ "tx" \notin harness.done
    /\ harness' = [harness EXCEPT !.done = harness.done \cup {"tx"},
                      !.tx = Polled(harness.tx, tx_get_hop_frequency(ticks_ms))]
    /\ UNCHANGED <<now, ini, rsp, snf, sent, budget, issued>>

S_RespHop ==
    /\ harness.phase = "static" /\ "resp" \notin harness.done
    /\ harness' = [harness EXCEPT !.done = harness.done \cup {"resp"},
                      !.resp = Polled(harness.resp, resp_get_hop_frequency(ticks_ms))]
    /\ UNCHANGED <<now, ini, rsp, snf, sent, budget, issued>>

S_EpochSlot ==
    /\ harness.phase = "static" /\ "ep" \notin harness.done
    /\ harness' = [harness EXCEPT !.done = harness.done \cup {"ep"},
                      !.ep = Polled(harness.ep,
                                [NoHop EXCEPT !.slot = slot_from_epoch(harness.epoch)])]
    /\ UNCHANGED <<now, ini, rsp, snf, sent, budget, issued>>

S_Tick ==
    /\ harness.phase = "static" /\ harness.done = StaticNodes
    /\ now + StaticStep <= harness.start + StaticSpan
    /\ now' = now + StaticStep
    /\ harness' = [harness EXCEPT !.done = {}]
    /\ UNCHANGED <<ini, rsp, snf, sent, budget, issued>>

\* ------------------------------------------- epoch-based slot, long run
\* A node that set its epoch START_IN_MS ahead (lora_receiver.py line 210,
\* lora_sender.py line 252) polls slot_from_epoch, as the Responder does at
\* the head of its loop and the Initiator in wait_until_slot_center, at
\* instants one hop interval or a quarter of the tick period apart.  freq
\* is the channel the Responder's loop would tune to at the poll.
EpochStarts == {0, 5000, TICKS_PERIOD - 20000}
EpochSteps == {HOP_INTERVAL_MS, TICKS_PERIOD \div 4}
EpochHorizon == TICKS_PERIOD + (TICKS_PERIOD - 1)   \* the clock of a run stays below this
EpochSeed == rx_derive_hop_seed(<<"sk", 1>>, Q_MIN)
InitEpochHarness ==
    harness = [phase |-> "epoch", epoch |-> ticks_add(ticks_ms, START_IN_MS),
               set_at |-> now, polls |-> 0, polled |-> FALSE, reached |-> FALSE,
               slot |-> NoneInt, prev |-> NoneInt, freq |-> RENDEZVOUS_FREQ_KHZ]

E_Poll ==
    /\ harness.phase = "epoch" /\ ~harness.polled
    /\ LET slot == slot_from_epoch(harness.epoch)
           r == [rsp EXCEPT !.session_key = <<"sk", 1>>, !.hop_seed = EpochSeed,
                            !.fhss_epoch_ms = harness.epoch]
       IN harness' = [harness EXCEPT !.polled = TRUE, !.polls = harness.polls + 1,
                         !.prev = harness.slot, !.slot = slot,
                         !.reached = harness.reached \/ slot >= 0,
                         !.freq = ListenFreq(r)]
    /\ UNCHANGED <<now, ini, rsp, snf, sent, budget, issued>>

E_Pass ==
    /\ harness.phase = "epoch" /\ harness.polled
    /\ harness.polls < EpochPolls
    /\ \E step \in EpochSteps \cup {START_IN_MS} :
          /\ step <= EpochHorizon - now
          /\ now' = now + step
    /\ harness' = [harness EXCEPT !.polled = FALSE]
    /\ UNCHANGED <<ini, rsp, snf, sent, budget, issued>>

\* ------------------------------------------------ frame text, parsing run
\* A frame text is a sequence of symbols: the separators "," and "=", the
\* whitespace characters, and runs of other characters ("hello", "ab").
\* TextParts does what the loop of parse_kvs does to the text before it
\* stores a pair: text.split(","), the test for "=", part.split("=", 1)
\* and the two strip() calls; parse_kvs above then fills the dictionary.
Whitespace == {" ", "\t"}

RECURSIVE split(_, _)
split(text, sep) ==
    IF \A i \in DOMAIN text : text[i] # sep THEN <<text>>
    ELSE LET i == CHOOSE i \in DOMAIN text :
                      text[i] = sep /\ \A j \in 1..(i - 1) : text[j] # sep
         IN <<SubSeq(text, 1, i - 1)>> \o split(SubSeq(text, i + 1, Len(text)), sep)

RECURSIVE join(_, _)
join(parts, sep) ==
    IF Len(parts) = 1 THEN parts[1]
    ELSE parts[1] \o <<sep>> \o join(Tail(parts), sep)

strip(s) ==
    LET kept == {i \in DOMAIN s : s[i] \notin Whitespace}
    IN IF kept = {} THEN <<>>
       ELSE SubSeq(s, CHOOSE i \in kept : \A j \in kept : i <= j,
                      CHOOSE i \in kept : \A j \in kept : j <= i)

\* the Python string a sequence of symbols stands for
RECURSIVE Str(_)
Str(s) == IF s = <<>> THEN "" ELSE s[1] \o Str(Tail(s))

HasEq(part) == \E i \in DOMAIN part : part[i] = "="

\* Variant: the token is cut at its last "=".
SplitPart_last(part) ==
    LET eq == CHOOSE i \in DOMAIN part :
                  part[i] = "=" /\ \A j \in (i + 1)..Len(part) : part[j] # "="
    IN <<Str(strip(SubSeq(part, 1, eq - 1))),
         Str(strip(SubSeq(part, eq + 1, Len(part))))>>

\* Variant: key and value are stored as they stand in the token.
SplitPart_raw(part) ==
    LET eq == CHOOSE i \in DOMAIN part :
                  part[i] = "=" /\ \A j \in 1..(i - 1) : part[j] # "="
    IN <<Str(SubSeq(part, 1, eq - 1)), Str(SubSeq(part, eq + 1, Len(part)))>>

\* lines 109-110: k, v = part.split("=", 1); kv[k.strip()] = v.strip()
SplitPart(part) ==
    LET eq == CHOOSE i \in DOMAIN part :
                  part[i] = "=" /\ \A j \in 1..(i - 1) : part[j] # "="
    IN <<Str(strip(SubSeq(part, 1, eq - 1))),
         Str(strip(SubSeq(part, eq + 1, Len(part))))>>

TextParts(text) ==
    LET parts == split(text, ",")
    IN [i \in DOMAIN parts |->
           IF HasEq(parts[i]) THEN SplitPart(parts[i]) ELSE <<Str(parts[i])>>]

\* Variant: any frame that carries a key the Responder does not know is
\* an unknown frame.
FrameClass_strict(kv, session_key) ==
    IF \E k \in DOMAIN kv : k \notin {"hello", "nonce", "kind", "iv", "msg",
                                       "counter", "t_ms", "slot"}
    THEN "other"
    ELSE IF IsHello(kv) THEN "hello"
    ELSE IF session_key # None /\ IsData(kv) /\ Has(kv, "counter") THEN "data"
    ELSE "other"

\* The Responder's dispatch on a parsed frame (lora_receiver.py lines 186,
\* 229 and 248): the HELLO branch is tried first, then the data branch.
FrameClass(kv, session_key) ==
    IF IsHello(kv) THEN "hello"
    ELSE IF session_key # None /\ IsData(kv) /\ Has(kv, "counter") THEN "data"
    ELSE "other"

ParseBases ==
    { <<"hello", "=", "1", ",", "nonce", "=", "ab">>,
      <<"hello", "=", "0", ",", "nonce", "=", "ab">>,
      <<"hello", "=", "1">>,
      <<"kind", "=", "data", ",", "iv", "=", "ab", ",", "msg", "=", "cd", ",",
        "counter", "=", "1">>,
      <<"kind", "=", "data", ",", "iv", "=", "ab", ",", "msg", "=", "cd">>,
      <<"ek", "=", "ab", ",", "nonce", "=", "ab", ",", "start_in", "=", "2000">>,
      <<>> }
JunkTokens == { <<"junk">>, <<>> }
UnknownTokens == { <<"\t", "x", "=", "y">> }
RepeatTokens ==
    { <<"hello", "=", "0">>, <<"hello", "=", "1">>, <<"nonce", "=", "a", "=", "b">>,
      <<"kind", "=", "ack">> }
NoEdit == [kind |-> "none", at |-> 0, tok |-> <<>>]

InitParseHarness ==
    \E text \in ParseBases, session_key \in {None, <<"sk", 1>>} :
        harness = [phase |-> "parse", text |-> text, session_key |-> session_key,
                   edits |-> 0, kv |-> <<>>, class |-> "none", edit |-> NoEdit]

\* the frame text reaches the Responder's loop: decode, parse_kvs, dispatch
Received(text, edit, edits) ==
    LET kv == parse_kvs(TextParts(text))
    IN harness' = [harness EXCEPT !.text = text, !.kv = kv, !.edit = edit,
                      !.class = FrameClass(kv, harness.session_key),
                      !.edits = edits]

InsertAt(s, p, items) == SubSeq(s, 1, p) \o items \o SubSeq(s, p + 1, Len(s))
InsertToken(text, p, tok) == join(InsertAt(split(text, ","), p, <<tok>>), ",")
CanEdit == harness.phase = "parse" /\ harness.class # "none" /\ harness.edits < MaxEdits

P_Receive ==
    /\ harness.phase = "parse" /\ harness.class = "none"
    /\ Received(harness.text, NoEdit, 0)
    /\ UNCHANGED <<now, ini, rsp, snf, sent, budget, issued>>

\* the next frame is the last one with one more token of the given kind
TokenEdit(kind, toks) ==
    \E tok \in toks, p \in 0..Len(split(harness.text, ",")) :
        Received(InsertToken(harness.text, p, tok),
                 [kind |-> kind, at |-> p, tok |-> tok], harness.edits + 1)

P_Junk ==
    /\ CanEdit
    /\ TokenEdit("junk", JunkTokens)
    /\ UNCHANGED <<now, ini, rsp, snf, sent, budget, issued>>

P_Unknown ==
    /\ CanEdit
    /\ TokenEdit("unknown", UnknownTokens)
    /\ UNCHANGED <<now, ini, rsp, snf, sent, budget, issued>>

P_Repeat ==
    /\ CanEdit
    /\ TokenEdit("repeat", RepeatTokens)
    /\ UNCHANGED <<now, ini, rsp, snf, sent, budget, issued>>

\* the next frame is the last one with one more whitespace character
P_Space ==
    /\ CanEdit
    /\ \E p \in 0..Len(harness.text) :
          Received(InsertAt(harness.text, p, <<" ">>),
                   [kind |-> "space", at |-> p + 1, tok |-> <<" ">>], harness.edits + 1)
    /\ UNCHANGED <<now, ini, rsp, snf, sent, budget, issued>>

\* ------------------------------------------------- stand-alone codec run
\* The padding and cipher helpers applied in the order the link applies
\* them: pkcs7_pad / pkcs7_unpad, enc_msg_cbc (lora_sender.py) / dec_msg_cbc
\* (lora_receiver.py), aes_ecb_encrypt (lora_receiver.py) / aes_ecb_decrypt
\* (lora_sender.py).  key is the sender's key, dkey the receiver's.
CodecBytes == {1, 16, 72}
CodecMessages ==
    {[i \in 1..n |-> b] : n \in 0..MaxMsgLen, b \in CodecBytes} \cup {MESSAGE}
CodecKeys == {derive_msg_key(<<"sk", k>>, 0) : k \in 1..2}
NoResult == [ok |-> FALSE, val |-> <<>>]
CodecInputs ==
    {[phase |-> "codec", step |-> "in", key |-> k, dkey |-> dk, m |-> m,
      sk |-> <<"sk", 1>>, padded |-> <<>>, rt |-> NoResult, e |-> <<>>,
      clear |-> NoResult, ek |-> None, blk |-> <<>>] :
        k \in CodecKeys, dk \in CodecKeys, m \in CodecMessages}

H_Pad ==
    /\ harness.phase = "codec" /\ harness.step = "in"
    /\ harness' = [harness EXCEPT !.step = "padded", !.padded = pkcs7_pad(harness.m)]
    /\ UNCHANGED <<now, ini, rsp, snf, sent, budget, issued>>

H_Unpad ==
    /\ harness.phase = "codec" /\ harness.step = "padded"
    /\ harness' = [harness EXCEPT !.step = "unpadded",
                                  !.rt = pkcs7_unpad(harness.padded)]
    /\ UNCHANGED <<now, ini, rsp, snf, sent, budget, issued>>

H_CbcEncrypt ==
    /\ harness.phase = "codec" /\ harness.step = "unpadded"
    /\ harness' = [harness EXCEPT !.step = "enc",
                      !.e = enc_msg_cbc(harness.key, harness.m, <<"iv", Len(harness.m)>>)]
    /\ UNCHANGED <<now, ini, rsp, snf, sent, budget, issued>>

H_CbcDecrypt ==
    /\ harness.phase = "codec" /\ harness.step = "enc"
    /\ harness' = [harness EXCEPT !.step = "dec",
                      !.clear = dec_msg_cbc(harness.dkey, harness.e[1], harness.e[2])]
    /\ UNCHANGED <<now, ini, rsp, snf, sent, budget, issued>>

H_EcbEncrypt ==
    /\ harness.phase = "codec" /\ harness.step = "dec"
    /\ harness' = [harness EXCEPT !.step = "wrapped",
                      !.ek = aes_ecb_encrypt(harness.key, <<harness.sk, TAG_BLOCK>>)]
    /\ UNCHANGED <<now, ini, rsp, snf, sent, budget, issued>>

H_EcbDecrypt ==
    /\ harness.phase = "codec" /\ harness.step = "wrapped"
    /\ harness' = [harness EXCEPT !.step = "done",
                      !.blk = aes_ecb_decrypt(harness.dkey, harness.ek)]
    /\ UNCHANGED <<now, ini, rsp, snf, sent, budget, issued>>

\* --------------------------------------------- stand-alone message keys
\* derive_msg_key on two (session key, counter) pairs, by the sender's copy
\* and, for the second pair, by the receiver's copy as well.  A counter is
\* hi * 2^31 + lo.
CounterLows == {0, 1, 255, 256, 2^30}
KeyCounters == {[hi |-> h, lo |-> l] : h \in 0..MaxHi, l \in CounterLows}
KeyInputs ==
    {[phase |-> "key", step |-> "in", sk1 |-> <<"sk", a>>, sk2 |-> <<"sk", b>>,
      c1 |-> c, c2 |-> d, k1 |-> None, k2 |-> None, k3 |-> None] :
        a \in 1..2, b \in 1..2, c \in KeyCounters, d \in KeyCounters}

H_KeyFirst ==
    /\ harness.phase = "key" /\ harness.step = "in"
    /\ harness' = [harness EXCEPT !.step = "first",
                      !.k1 = derive_msg_key_wide(harness.sk1, harness.c1.hi, harness.c1.lo)]
    /\ UNCHANGED <<now, ini, rsp, snf, sent, budget, issued>>

H_KeySecond ==
    /\ harness.phase = "key" /\ harness.step = "first"
    /\ harness' = [harness EXCEPT !.step = "second",
                      !.k2 = derive_msg_key_wide(harness.sk2, harness.c2.hi, harness.c2.lo)]
    /\ UNCHANGED <<now, ini, rsp, snf, sent, budget, issued>>

H_KeyRx ==
    /\ harness.phase = "key" /\ harness.step = "second"
    /\ harness' = [harness EXCEPT !.step = "done",
                      !.k3 = rx_derive_msg_key_wide(harness.sk2, harness.c2.hi, harness.c2.lo)]
    /\ UNCHANGED <<now, ini, rsp, snf, sent, budget, issued>>

\* ------------------------------------------------------------ good link
\* RSSI readings that differ by at most the Initiator's window.
GoodRssi == {0 - 73, 0 - 65}

\* A link that delivers every frame to every radio tuned to its frequency
\* and inside recv since before the frame started, on which every
\* transmission completes.
GoodChannel(max_time, readings) ==
    [replays |-> 0, time |-> max_time, nonces |-> MaxNonce,
     lossy |-> FALSE, rssi |-> readings]

\* A KeyReply was sent for the Initiator's nonce and the attempt failed:
\* the reply was lost, arrived with a CRC error, or did not unwrap.
ReplyLost ==
    /\ ini.session_key = None
    /\ ini.log \in {"no_reply", "tag_mismatch"}
    /\ \E rec \in issued : rec.nonce_hex = ini.nonce_hex

\* From some moment after a lost KeyReply the link delivers every frame;
\* the RSSI readings stay free, or stay within the window.
EnvLinkUp ==
    /\ budget.lossy /\ ReplyLost
    /\ \E readings \in {RssiValues, GoodRssi} :
          budget' = [budget EXCEPT !.lossy = FALSE, !.rssi = readings]
    /\ UNCHANGED <<now, ini, rsp, snf, sent, issued, harness>>

\* ------------------------------------------------------- radio driver
\* lora_min.py, class SX1276, as the three loops use it: send and recv
\* poll RegIrqFlags over SPI.  The run keeps the registers the two calls
\* touch in `harness': op_mode is the last value written to RegOpMode, irq
\* is RegIrqFlags, fifo what the chip received, data what was loaded for
\* transmission.  irq_read and clock_read are what the last turn of the
\* poll loop read from RegIrqFlags and from ticks_diff(ticks_ms(), t0).
MODE_LONG_RANGE_MODE  == 128
MODE_STDBY            == 1
MODE_TX               == 3
MODE_RX_CONTINUOUS    == 5
IRQ_RX_DONE_MASK      == 64
IRQ_TX_DONE_MASK      == 8
IRQ_PAYLOAD_CRC_ERROR == 32
IRQ_ALL               == 255
RSSI_OFFSET_DBM       == 0 - 157

\* timeout_ms of the Sniffer's recv, eavesdrop.py line 134
SNIFF_RECV_TIMEOUT_MS == 0

\* `irq & mask' for a one-bit mask
Bit(v, mask) == (v \div mask) % 2 = 1

\* _write_reg(REG_IRQ_FLAGS, w): the flags written as 1 are cleared
ClearIrq(irq, w) ==
    LET drop(m) == IF Bit(irq, m) /\ Bit(w, m) THEN m ELSE 0
    IN irq - drop(IRQ_RX_DONE_MASK) - drop(IRQ_TX_DONE_MASK) - drop(IRQ_PAYLOAD_CRC_ERROR)

\* The tuple recv returns; a payload of zero bytes is not None.
Bytes(b) == <<"bytes", b>>
NoPacket == [payload |-> None, rssi |-> NoneInt, snr |-> NoneInt]

\* lines 256-260: the register is a signed byte in quarters of a dB; the
\* result is kept as the number of quarters.
snr_db(pkt_snr) == IF pkt_snr > 127 THEN pkt_snr - 256 ELSE pkt_snr

\* lines 262-264
rssi_dbm(pkt_rssi) == RSSI_OFFSET_DBM + pkt_rssi

\* SX1276.standby, lines 148-149
standby(h) == [h EXCEPT !.op_mode = MODE_LONG_RANGE_MODE + MODE_STDBY]

\* SX1276.send up to the poll loop, lines 157-170
send_start(h, data, timeout_ms) ==
    [standby(h) EXCEPT !.irq = ClearIrq(h.irq, IRQ_ALL),
                       !.data = data,
                       !.op_mode = MODE_LONG_RANGE_MODE + MODE_TX,
                       !.t0 = ticks_ms, !.timeout_ms = timeout_ms,
                       !.call = "send", !.pc = "poll", !.ret = None,
                       !.irq_read = 0, !.clock_read = 0, !.polled = FALSE]

\* Variant: the timeout path returns without standby().
send_poll_keeptx(h) ==
    LET irq == h.irq
        dt  == ticks_diff(ticks_ms, h.t0)
    IN IF Bit(irq, IRQ_TX_DONE_MASK)
       THEN [standby(h) EXCEPT !.irq = ClearIrq(irq, IRQ_TX_DONE_MASK),
                               !.ret = TRUE, !.pc = "returned", !.irq_read = irq]
       ELSE IF dt > h.timeout_ms
       THEN [h EXCEPT !.ret = FALSE, !.pc = "returned",
                      !.irq_read = irq, !.clock_read = dt]
       ELSE [h EXCEPT !.irq_read = irq, !.clock_read = dt, !.polled = TRUE]

\* One turn of the poll loop of send, lines 171-179
send_poll(h) ==
    LET irq == h.irq
        dt  == ticks_diff(ticks_ms, h.t0)
    IN IF Bit(irq, IRQ_TX_DONE_MASK)
       THEN [standby(h) EXCEPT !.irq = ClearIrq(irq, IRQ_TX_DONE_MASK),
                               !.ret = TRUE, !.pc = "returned", !.irq_read = irq]
       ELSE IF dt > h.timeout_ms
       THEN [standby(h) EXCEPT !.ret = FALSE, !.pc = "returned",
                               !.irq_read = irq, !.clock_read = dt]
       ELSE [h EXCEPT !.irq_read = irq, !.clock_read = dt, !.polled = TRUE]

\* SX1276.recv up to the poll loop, lines 230-238
recv_start(h, timeout_ms) ==
    [h EXCEPT !.irq = ClearIrq(h.irq, IRQ_ALL),
              !.op_mode = MODE_LONG_RANGE_MODE + MODE_RX_CONTINUOUS,
              !.t0 = ticks_ms, !.timeout_ms = timeout_ms,
              !.call = "recv", !.pc = "poll", !.ret = None,
              !.irq_read = 0, !.clock_read = 0, !.polled = FALSE]

\* Variant: a frame with a CRC error is handed to the caller.
recv_poll_nocrc(h) ==
    LET irq == h.irq
        dt  == ticks_diff(ticks_ms, h.t0)
    IN IF Bit(irq, IRQ_RX_DONE_MASK)
       THEN [standby(h) EXCEPT !.irq = ClearIrq(irq, IRQ_ALL),
                  !.ret = [payload |-> Bytes(h.fifo),
                           rssi |-> rssi_dbm(h.pkt_rssi),
                           snr |-> snr_db(h.pkt_snr)],
                  !.pc = "returned", !.irq_read = irq]
       ELSE IF h.timeout_ms # 0 /\ dt > h.timeout_ms
       THEN [standby(h) EXCEPT !.ret = NoPacket, !.pc = "returned",
                               !.irq_read = irq, !.clock_read = dt]
       ELSE [h EXCEPT !.irq_read = irq, !.clock_read = dt, !.polled = TRUE]

\* Variant: the clock is never consulted.
recv_poll_forever(h) ==
    LET irq == h.irq
    IN IF Bit(irq, IRQ_RX_DONE_MASK)
       THEN IF Bit(irq, IRQ_PAYLOAD_CRC_ERROR)
            THEN [standby(h) EXCEPT !.irq = ClearIrq(irq, IRQ_ALL),
                                    !.ret = NoPacket, !.pc = "returned",
                                    !.irq_read = irq]
            ELSE [standby(h) EXCEPT !.irq = ClearIrq(irq, IRQ_ALL),
                       !.ret = [payload |-> Bytes(h.fifo),
                                rssi |-> rssi_dbm(h.pkt_rssi),
                                snr |-> snr_db(h.pkt_snr)],
                       !.pc = "returned", !.irq_read = irq]
       ELSE [h EXCEPT !.irq_read = irq, !.polled = TRUE]

\* One turn of the poll loop of recv, lines 239-272
recv_poll(h) ==
    LET irq == h.irq
        dt  == ticks_diff(ticks_ms, h.t0)
    IN IF Bit(irq, IRQ_RX_DONE_MASK)
       THEN IF Bit(irq, IRQ_PAYLOAD_CRC_ERROR)
            THEN [standby(h) EXCEPT !.irq = ClearIrq(irq, IRQ_ALL),
                                    !.ret = NoPacket, !.pc = "returned",
                                    !.irq_read = irq]
            ELSE [standby(h) EXCEPT !.irq = ClearIrq(irq, IRQ_ALL),
                       !.ret = [payload |-> Bytes(h.fifo),
                                rssi |-> rssi_dbm(h.pkt_rssi),
                                snr |-> snr_db(h.pkt_snr)],
                       !.pc = "returned", !.irq_read = irq]
       ELSE IF h.timeout_ms # 0 /\ dt > h.timeout_ms
       THEN [standby(h) EXCEPT !.ret = NoPacket, !.pc = "returned",
                               !.irq_read = irq, !.clock_read = dt]
       ELSE [h EXCEPT !.irq_read = irq, !.clock_read = dt, !.polled = TRUE]

\* SX1276.__init__, lines 60-93: LoRa mode, standby, flags cleared.
RadioReset ==
    [phase |-> "radio", op_mode |-> MODE_LONG_RANGE_MODE + MODE_STDBY, irq |-> 0,
     data |-> None, fifo |-> None, pkt_rssi |-> 0, pkt_snr |-> 0,
     call |-> "none", pc |-> "idle", t0 |-> 0, timeout_ms |-> 0, ret |-> None,
     irq_read |-> 0, clock_read |-> 0, polled |-> FALSE]

\* What the callers pass and what the chip can report.
RadioPayloads  == {<<>>, <<72>>}
SendTimeouts   == {0, RadioTimeout}
RecvTimeouts   == {SNIFF_RECV_TIMEOUT_MS, RadioTimeout}
PktRssiValues  == {84, 117}
PktSnrValues   == {28, 236}

\* A loop calls send.
D_Send ==
    /\ harness.phase = "radio" /\ harness.pc \in {"idle", "returned"}
    /\ \E data \in RadioPayloads, t \in SendTimeouts :
          harness' = send_start(harness, data, t)
    /\ UNCHANGED <<now, ini, rsp, snf, sent, budget, issued>>

D_SendPoll ==
    /\ harness.phase = "radio" /\ harness.pc = "poll" /\ harness.call = "send"
    /\ harness' = send_poll(harness)
    /\ UNCHANGED <<now, ini, rsp, snf, sent, budget, issued>>

\* A loop calls recv.
D_Recv ==
    /\ harness.phase = "radio" /\ harness.pc \in {"idle", "returned"}
    /\ \E t \in RecvTimeouts : harness' = recv_start(harness, t)
    /\ UNCHANGED <<now, ini, rsp, snf, sent, budget, issued>>

D_RecvPoll ==
    /\ harness.phase = "radio" /\ harness.pc = "poll" /\ harness.call = "recv"
    /\ harness' = recv_poll(harness)
    /\ UNCHANGED <<now, ini, rsp, snf, sent, budget, issued>>

\* The chip in TX mode finishes the transmission.
C_TxDone ==
    /\ harness.phase = "radio" /\ harness.op_mode = MODE_LONG_RANGE_MODE + MODE_TX
    /\ ~Bit(harness.irq, IRQ_TX_DONE_MASK)
    /\ harness' = [harness EXCEPT !.irq = @ + IRQ_TX_DONE_MASK]
    /\ UNCHANGED <<now, ini, rsp, snf, sent, budget, issued>>

\* The chip in continuous receive gets a frame, with or without a CRC error.
C_RxDone ==
    /\ harness.phase = "radio"
    /\ harness.op_mode = MODE_LONG_RANGE_MODE + MODE_RX_CONTINUOUS
    /\ ~Bit(harness.irq, IRQ_RX_DONE_MASK)
    /\ \E b \in RadioPayloads, r \in PktRssiValues, q \in PktSnrValues,
          crc \in {0, IRQ_PAYLOAD_CRC_ERROR} :
          harness' = [harness EXCEPT !.irq = @ + IRQ_RX_DONE_MASK + crc,
                                     !.fifo = b, !.pkt_rssi = r, !.pkt_snr = q]
    /\ UNCHANGED <<now, ini, rsp, snf, sent, budget, issued>>

\* A millisecond passes; the poll loop turns at least once per millisecond.
D_Tick ==
    /\ harness.phase = "radio"
    /\ harness.pc = "poll" => harness.polled
    /\ now < RadioTime
    /\ now' = now + 1
    /\ harness' = [harness EXCEPT !.polled = FALSE]
    /\ UNCHANGED <<ini, rsp, snf, sent, budget, issued>>

\* ------------------------------------------------------ specifications
LinkNext ==
    \/ I_Top \/ I_HelloDone \/ I_RecvTimeout \/ I_ReplyGot \/ I_SleepRetry
    \/ I_WaitCenter \/ I_Settle \/ I_DataDone \/ I_RepSleep \/ I_RepDone
    \/ I_LoopSleep
    \/ R_Top \/ R_RecvTimeout \/ R_Got \/ R_ReplyDone
    \/ Tick

\* The link alone; the sniffer sits on the channel its file names.
Init == InitProtocol(FREQ_KHZ, 0, MaxTime) /\ harness = NoHarness
Next == LinkNext
Spec == Init /\ [][Next]_vars

\* The link with the sniffer tuned to the rendezvous channel.
InitSniff == InitProtocol(RENDEZVOUS_FREQ_KHZ, 0, SniffTime) /\ harness = NoHarness
NextSniff == LinkNext \/ S_Got
SpecSniff == InitSniff /\ [][NextSniff]_vars

\* The first handshake attempts with frames re-injected by the environment
\* (the horizon ends before a reply timeout or a Data frame can happen).
InitReplay == InitProtocol(FREQ_KHZ, MaxReplay, ReplayTime) /\ harness = NoHarness
NextReplay ==
    \/ I_Top \/ I_HelloDone \/ I_ReplyGot \/ I_SleepRetry \/ I_WaitCenter
    \/ R_Top \/ R_RecvTimeout \/ R_Got \/ R_ReplyDone
    \/ EnvReplay
    \/ Tick
SpecReplay == InitReplay /\ [][NextReplay]_vars

\* The link with recorded Data frames sent again by the environment.
InitData == InitProtocol(FREQ_KHZ, MaxReplay, DataTime) /\ harness = NoHarness
NextData == LinkNext \/ EnvReplayData
SpecData == InitData /\ [][NextData]_vars

\* The first handshake attempts, the sniffer on the rendezvous channel,
\* and noise frames handed to the parked nodes (the horizon ends before a
\* receive call can time out).
InitNoise == InitProtocol(RENDEZVOUS_FREQ_KHZ, MaxReplay, NoiseTime) /\ harness = NoHarness
NextNoise ==
    \/ I_Top \/ I_HelloDone \/ I_ReplyGot \/ I_SleepRetry \/ I_WaitCenter
    \/ R_Top \/ R_Got \/ R_ReplyDone
    \/ S_Got
    \/ EnvNoise(MalformedFrames)
    \/ Tick
SpecNoise == InitNoise /\ [][NextNoise]_vars

\* The same, with noise frames that decrypt to each buffer of PadBuffers.
NextPad ==
    \/ I_Top \/ I_HelloDone \/ I_ReplyGot \/ I_SleepRetry \/ I_WaitCenter
    \/ R_Top \/ R_Got \/ R_ReplyDone
    \/ S_Got
    \/ EnvNoise(PaddingFrames)
    \/ Tick
SpecPad == InitNoise /\ [][NextPad]_vars

\* The same, with Hello frames whose nonce is hexadecimal text of a length
\* other than 16 characters.
NextNonce ==
    \/ I_Top \/ I_HelloDone \/ I_ReplyGot \/ I_SleepRetry \/ I_WaitCenter
    \/ R_Top \/ R_Got \/ R_ReplyDone
    \/ S_Got
    \/ EnvNoise(NonceLengthFrames)
    \/ Tick
SpecNonce == InitNoise /\ [][NextNonce]_vars

\* The unwrap on its own.
InitUnwrap == InitProtocol(FREQ_KHZ, 0, 0) /\ harness \in HarnessInputs
NextUnwrap == H_Wrap \/ H_Unwrap
SpecUnwrap == InitUnwrap /\ [][NextUnwrap]_vars

\* The hop functions of the two files side by side.
InitHop == InitProtocol(FREQ_KHZ, 0, 0) /\ harness \in HopInputs
NextHop == H_HopTx \/ H_HopRx
SpecHop == InitHop /\ [][NextHop]_vars

\* The static schedulers polled over a stretch of time.
InitStatic ==
    /\ now \in StaticStarts
    /\ InitNodes(FREQ_KHZ, 0, 0)
    /\ InitStaticHarness
NextStatic == S_RxHop \/ S_TxHop \/ S_RespHop \/ S_EpochSlot \/ S_Tick
SpecStatic == InitStatic /\ [][NextStatic]_vars

\* The epoch-based slot polled over more than a tick period.
InitEpoch ==
    /\ now \in EpochStarts
    /\ InitNodes(FREQ_KHZ, 0, 0)
    /\ InitEpochHarness
NextEpoch == E_Poll \/ E_Pass
SpecEpoch == InitEpoch /\ [][NextEpoch]_vars

\* Frame texts handed to parse_kvs and the Responder's dispatch.
InitParse == now = 0 /\ InitNodes(FREQ_KHZ, 0, 0) /\ InitParseHarness
NextParse == P_Receive \/ P_Junk \/ P_Unknown \/ P_Repeat \/ P_Space
SpecParse == InitParse /\ [][NextParse]_vars

\* Codec run only.
InitCodec == InitProtocol(FREQ_KHZ, 0, 0) /\ harness \in CodecInputs
NextCodec == H_Pad \/ H_Unpad \/ H_CbcEncrypt \/ H_CbcDecrypt \/ H_EcbEncrypt \/ H_EcbDecrypt
SpecCodec == InitCodec /\ [][NextCodec]_vars

\* Message-key run only.
InitKey == InitProtocol(FREQ_KHZ, 0, 0) /\ harness \in KeyInputs
NextKey == H_KeyFirst \/ H_KeySecond \/ H_KeyRx
SpecKey == InitKey /\ [][NextKey]_vars

\* Each loop runs on its own node and never stops: a blocking call that
\* can return does return, time passes, and the code between the return of
\* recv and the next blocking call (I_ReplyGot, R_Got: enabled exactly when
\* pc = "got") runs to its end.
CallSteps ==
    \/ I_Top \/ I_HelloDone \/ I_RecvTimeout \/ I_SleepRetry
    \/ I_WaitCenter \/ I_Settle \/ I_DataDone \/ I_RepSleep \/ I_RepDone
    \/ I_LoopSleep
    \/ R_Top \/ R_RecvTimeout \/ R_ReplyDone
    \/ Tick
LoopsRun ==
    /\ WF_vars(CallSteps)
    /\ []<>(ini.pc # "got")
    /\ []<>(rsp.pc # "got")

\* The link that loses a KeyReply and then turns good.
InitRecover ==
    /\ now = 0
    /\ InitNodesOn(FREQ_KHZ, [LossyChannel(0, RecoverTime) EXCEPT !.nonces = RecoverNonce])
    /\ harness = NoHarness
NextRecover == LinkNext \/ EnvLinkUp
SpecRecover == InitRecover /\ [][NextRecover]_vars /\ LoopsRun

\* The link that is good, or lossy, from the start.
InitGood ==
    /\ now = 0
    /\ \E channel \in {LossyChannel(0, MaxTime), GoodChannel(MaxTime, GoodRssi)} :
          InitNodesOn(FREQ_KHZ, channel)
    /\ harness = NoHarness
NextGood == LinkNext
SpecGood == InitGood /\ [][NextGood]_vars /\ LoopsRun

\* The radio driver on its own.
InitRadio == InitProtocol(FREQ_KHZ, 0, 0) /\ harness = RadioReset
NextRadio == D_Send \/ D_SendPoll \/ D_Recv \/ D_RecvPoll \/ C_TxDone \/ C_RxDone \/ D_Tick
SpecRadio == InitRadio /\ [][NextRadio]_vars

\* =============================================================== claims

\* C1. Unwrap boundary: for every nonce, session key SK, Responder reading
\* R and Initiator reading r, the unwrap of ECB(KDF(R, nonce), SK || TAG)
\* returns (SK, R) when |R - r| <= 8 and (None, None) when R is outside
\* the window; a candidate q matches the tag only when q = R.
C1_UnwrapBoundary ==
    harness.phase = "out" =>
        /\ ~harness.out.err
        /\ Abs(harness.R - harness.r) <= RSSI_WINDOW_DB =>
              harness.out.sess = harness.sk /\ harness.out.q = harness.R
        /\ Abs(harness.R - harness.r) > RSSI_WINDOW_DB =>
              harness.out.sess = None /\ harness.out.q = NoneInt
        /\ \A q \in (harness.r - HarnessSpan - 1)..(harness.r + HarnessSpan + 1) :
              TagMatches(unhexlify(harness.ek_hex), harness.nonce, q) <=> q = harness.R

C1_Witness ==
    /\ harness.phase = "out"
    /\ harness.R = harness.r + RSSI_WINDOW_DB
    /\ harness.out.sess = harness.sk

\* C2. Key and hop-seed agreement: when the Initiator holds a session key
\* for nonce n, the Responder issued exactly that key for n, and the
\* Initiator's hop seed is the one the Responder derived (q_found = q).
C2_KeyAgreement ==
    ini.session_key # None =>
        /\ \E rec \in issued : rec.nonce_hex = ini.nonce_hex
        /\ \A rec \in issued : rec.nonce_hex = ini.nonce_hex =>
              /\ ini.session_key = rec.session_key
              /\ ini.hop_seed = rec.hop_seed
              /\ ini.hop_seed = derive_hop_seed(ini.session_key, rec.q)

C2_Witness ==
    /\ ini.session_key # None
    /\ ini.nonce_ctr >= 2
    /\ ini.session_key = rsp.session_key
    /\ ini.hop_seed = rsp.hop_seed

\* The frame the sniffer processed last, parsed.
SeenKv == parse_kvs(snf.seen)
SeenKeyReply == Has(SeenKv, "ek") /\ Has(SeenKv, "nonce") /\ ~IsHello(SeenKv)
SeenData == ~IsHello(SeenKv) /\ ~Has(SeenKv, "ek") /\ IsData(SeenKv)

\* C3 as stated. Sniffer recovery: after the sniffer has processed a
\* captured KeyReply, its active key is the session key the Responder
\* generated for that nonce, whatever RSSI the Responder quantized.
C3_RecoveryAnyRssi ==
    SeenKeyReply =>
        \A rec \in issued : rec.nonce_hex = SeenKv["nonce"] =>
            snf.active_session_key = rec.session_key

\* C3 amended. The sniffer recovers the Responder's session key when the
\* Responder's q lies in [Q_MIN, Q_MAX]; for any other q it recovers no
\* key for that nonce.
C3_RecoveryInRange ==
    SeenKeyReply =>
        \A rec \in issued : rec.nonce_hex = SeenKv["nonce"] =>
            IF rec.q \in Q_MIN..Q_MAX
            THEN /\ snf.active_session_key = rec.session_key
                 /\ snf.active_nonce = rec.nonce_hex
                 /\ snf.handshakes[rec.nonce_hex].sess = rec.session_key
            ELSE /\ snf.handshakes[rec.nonce_hex].sess = None
                 /\ snf.log = "failed"

C3_Witness ==
    /\ SeenKeyReply
    /\ snf.log = "recovered"
    /\ snf.active_session_key = rsp.session_key

\* C4. Sniffer data decryption: a Data frame encrypted under
\* derive_msg_key(K, counter), processed while K is the sniffer's active
\* key, is decrypted by the sniffer to the original message.
C4_SnifferDecrypts ==
    (/\ SeenData
     /\ snf.active_session_key # None
     /\ Has(SeenKv, "counter")
     /\ unhexlify(SeenKv["msg"]).k =
           derive_msg_key(snf.active_session_key, int_of(SeenKv["counter"])))
    => (snf.log = "dec-ok" /\ snf.msg_clear = MESSAGE)

\* The reply the Initiator is about to process, parsed.
ReplyKv == parse_kvs(ini.rx.payload)
ReplyComplete ==
    /\ ini.pc = "got"
    /\ Has(ReplyKv, "ek") /\ Has(ReplyKv, "nonce") /\ Has(ReplyKv, "start_in")

\* C5. Nonce-mismatch rejection: a KeyReply whose echoed nonce is not the
\* nonce of the Hello just sent installs nothing; it is logged and
\* dropped, and the Initiator goes back to the head of the handshake.
C5_NonceMismatchRejected ==
    [][(ReplyComplete /\ ReplyKv["nonce"] # ini.nonce_hex /\ ini' # ini) =>
          /\ ini'.session_key = None
          /\ ini'.hop_seed = NoneInt
          /\ ini'.fhss_epoch_ms = ini.fhss_epoch_ms
          /\ ini'.log = "nonce_mismatch"
          /\ ini'.pc = "top"]_vars

C5_Witness ==
    /\ ini.log = "nonce_mismatch"
    /\ ini.pc = "hello_tx"
    /\ ini.session_key = None

\* C6. Nonce freshness: every Hello send starts with a nonce generated for
\* that attempt: a new urandom value, different from the previous
\* attempt's, carried by the frame, and never on the air before.
C6_FreshNonce ==
    [][(ini'.pc = "hello_tx" /\ ini.pc # "hello_tx") =>
          /\ ini'.nonce_ctr = ini.nonce_ctr + 1
          /\ ini'.nonce_hex = hexlify(ini'.nonce_ctr)
          /\ ini'.nonce_hex # ini.nonce_hex
          /\ ini'.tx.payload = HelloFrame(ini'.nonce_hex)
          /\ \A f \in sent : f.payload # ini'.tx.payload]_vars

C6_Witness ==
    /\ ini.pc = "hello_tx"
    /\ ini.nonce_ctr >= 2
    /\ ini.log = "no_reply"

\* C7. Unbounded, unconditional retry: without a session key the
\* Initiator is always inside the handshake (no terminal state), every
\* failure leads back to a new Hello, the loop head can always start one,
\* and the pause before it never exceeds the fixed 200 ms.
HandshakePcs == {"top", "hello_tx", "recv", "got", "sleep_retry"}

C7_NoTerminalState ==
    ini.session_key = None =>
        /\ ini.pc \in HandshakePcs
        /\ ini.pc = "sleep_retry" =>
              ini.wake - now >= 0 /\ ini.wake - now <= RETRY_SLEEP_MS
        /\ (ini.pc = "top" /\ ini.nonce_ctr < budget.nonces) => ENABLED I_Top

C7_RetryStep ==
    (ini.session_key = None /\ ini' # ini) =>
        /\ ini.pc = "top" => ini'.pc = "hello_tx"
        /\ ini.pc = "sleep_retry" => ini'.pc = "top"
        /\ ini.pc = "hello_tx" => ini'.pc \in {"recv", "sleep_retry"}
        /\ ini.pc = "recv" => ini'.pc \in {"got", "sleep_retry"}
        /\ ini.pc = "got" =>
              \/ ini'.pc \in {"top", "sleep_retry"} /\ ini'.session_key = None
              \/ ini'.pc = "wait_center" /\ ini'.session_key # None

C7_UnboundedRetry == [] C7_NoTerminalState /\ [][C7_RetryStep]_vars

C7_Witness ==
    /\ ini.pc = "hello_tx"
    /\ ini.nonce_ctr >= 3
    /\ ini.session_key = None

\* C8. Tag mismatch is a clean failure: when the reply's q is outside the
\* Initiator's window the attempt ends with no session key and no hop
\* seed, nothing but a new Hello is transmitted, and the handshake resumes.
ReplyOutsideWindow ==
    /\ ReplyComplete
    /\ ReplyKv["nonce"] = ini.nonce_hex
    /\ \E rec \in issued :
          /\ rec.nonce_hex = ini.nonce_hex
          /\ ReplyKv["ek"] = hexlify(WrapSessionKey(rec.session_key, rec.q,
                                                    unhexlify(rec.nonce_hex)))
          /\ Abs(rec.q - ini.rx.rssi) > RSSI_WINDOW_DB

C8_TagMismatchStep ==
    (ReplyOutsideWindow /\ ini' # ini) =>
        /\ ini'.session_key = None
        /\ ini'.hop_seed = NoneInt
        /\ ini'.log = "tag_mismatch"
        /\ ini'.pc = "sleep_retry"
        /\ ini'.tx = NoTx

C8_AfterTagMismatch ==
    ini.log = "tag_mismatch" =>
        /\ ini.session_key = None
        /\ ini.hop_seed = NoneInt
        /\ ini.pc \in {"sleep_retry", "top", "hello_tx"}
        /\ ini.pc = "hello_tx" => ini.tx.payload = HelloFrame(ini.nonce_hex)

C8_TagMismatchClean == [] C8_AfterTagMismatch /\ [][C8_TagMismatchStep]_vars

C8_Witness ==
    /\ ini.log = "tag_mismatch"
    /\ ini.pc = "hello_tx"
    /\ ini.fhss_epoch_ms # NoneInt

\* C9. Parked before epoch: while a node holds a session and its clock
\* has not reached epoch_ms, its radio is on the rendezvous frequency (and
\* the Initiator only waits).
BeforeEpoch(n) ==
    n.session_key # None /\ ticks_diff(ticks_ms, n.fhss_epoch_ms) < 0

C9_ParkedBeforeEpoch ==
    /\ BeforeEpoch(rsp) => rsp.freq = RENDEZVOUS_FREQ_KHZ
    /\ BeforeEpoch(ini) => ini.freq = RENDEZVOUS_FREQ_KHZ /\ ini.pc = "wait_center"

C9_Witness ==
    /\ BeforeEpoch(rsp) /\ BeforeEpoch(ini)
    /\ rsp.pc = "recv" /\ rsp.log = "timeout"
    /\ rsp.hop_seed = ini.hop_seed

\* C10. Slot-centre transmit alignment: every Data transmission, the
\* repeat included, starts in the slot it is labelled with, at a phase
\* within TX_CENTER_MS +- TX_CENTER_TOL_MS plus the tune-settle delay.
C10_SlotCentre ==
    ini.pc \in {"data_tx", "rep_tx"} =>
        LET d == ticks_diff(ini.tx.t0, ini.fhss_epoch_ms)
        IN /\ d >= 0
           /\ d \div HOP_INTERVAL_MS = ini.slot
           /\ d % HOP_INTERVAL_MS >= TX_CENTER_MS - TX_CENTER_TOL_MS
           /\ d % HOP_INTERVAL_MS <= TX_CENTER_MS + TX_CENTER_TOL_MS + TX_TUNE_SETTLE_MS

\* The Responder is inside a recv that it started while hopping; the slot
\* it tuned for is the slot of the instant the call started.
HopListen ==
    /\ rsp.pc = "recv" /\ rsp.session_key # None
    /\ ticks_diff(rsp.rx_t0 % TICKS_PERIOD, rsp.fhss_epoch_ms) >= 0
ListenSlot == ticks_diff(rsp.rx_t0 % TICKS_PERIOD, rsp.fhss_epoch_ms) \div HOP_INTERVAL_MS

\* C11 as stated. The Responder never listens past a channel change:
\* while it is inside a hop-phase recv, its slot_from_epoch is still the
\* slot whose frequency the recv was tuned to.
C11_NeverPastChange ==
    HopListen => slot_from_epoch(rsp.fhss_epoch_ms) = ListenSlot

\* C11 amended. A hop-phase recv stays on the frequency of the slot it
\* was started in, and ends no later than HOP_GUARD_MS (plus the one
\* millisecond of the "> timeout" test) after that slot's end; it can be
\* on the old frequency during the guard at the start of the next slot.
C11_ListenWithinGuard ==
    HopListen =>
        /\ rsp.freq = rx_hop_freq_for_slot_seeded(rsp.hop_seed, ListenSlot)
        /\ slot_from_epoch(rsp.fhss_epoch_ms) \in {ListenSlot, ListenSlot + 1}
        /\ ticks_diff(ticks_ms, rsp.fhss_epoch_ms)
              <= (ListenSlot + 1) * HOP_INTERVAL_MS + HOP_GUARD_MS + 1
        /\ rsp.wake - rsp.rx_t0 <= HOP_INTERVAL_MS + HOP_GUARD_MS + 1

C11_Witness ==
    /\ HopListen
    /\ slot_from_epoch(rsp.fhss_epoch_ms) = ListenSlot + 1
    /\ phase_in_epoch_slot_ms(rsp.fhss_epoch_ms) > 0
    /\ phase_in_epoch_slot_ms(rsp.fhss_epoch_ms) <= HOP_GUARD_MS + 1

\* C12. Retune before every radio operation: whenever the Initiator or the
\* Responder is inside a radio send or receive, set_frequency has been
\* called since the previous radio operation returned.
C12_RetuneBeforeEveryOp ==
    /\ ini.pc \in {"hello_tx", "recv", "data_tx", "rep_tx"} => ini.retuned
    /\ rsp.pc \in {"recv", "reply_tx"} => rsp.retuned

\* C13. Dynamic hop determinism: on the same (session_key, q, slot) the
\* Initiator's and the Responder's derive_hop_seed and hop_idx_for_slot
\* give the same seed and the same index, the index is a valid position
\* of the table, and the two tables are the same.
C13_HopDeterminism ==
    /\ RX_FREQ_TABLE_KHZ = FREQ_TABLE_KHZ
    /\ (harness.phase = "hop" /\ harness.tx # None) =>
          harness.tx.idx \in 0..(Len(FREQ_TABLE_KHZ) - 1)
    /\ (harness.phase = "hop" /\ harness.rx # None) =>
          harness.rx.idx \in 0..(Len(RX_FREQ_TABLE_KHZ) - 1)
    /\ (harness.phase = "hop" /\ harness.tx # None /\ harness.rx # None) =>
          /\ harness.tx.seed = harness.rx.seed
          /\ harness.tx.idx = harness.rx.idx
          /\ harness.tx.freq = harness.rx.freq

C13_Witness ==
    /\ harness.phase = "hop" /\ harness.tx # None /\ harness.rx # None
    /\ harness.slot = 3 /\ harness.q = 0 - 73
    /\ harness.tx.idx = harness.rx.idx

\* C14. Static hop determinism: for the same slot, every copy of the
\* static scheduler computes the same prn and the same index, the index
\* is a valid position of the table, and the tables are the same.
StaticCopies == {"rx", "tx", "resp"}
C14_StaticDeterminism ==
    harness.phase = "static" =>
        /\ RX_STATIC_TABLE_KHZ = TX_STATIC_TABLE_KHZ
        /\ RX_STATIC_TABLE_KHZ = RESP_STATIC_TABLE_KHZ
        /\ \A a \in StaticCopies :
              harness[a].slot # NoneInt =>
                  /\ harness[a].idx \in 0..(Len(RX_STATIC_TABLE_KHZ) - 1)
                  /\ harness[a].idx = harness[a].prn % Len(RX_STATIC_TABLE_KHZ)
                  /\ harness[a].prn >= 0
        /\ \A a, b \in StaticCopies :
              (harness[a].slot # NoneInt /\ harness[a].slot = harness[b].slot) =>
                  /\ harness[a].prn = harness[b].prn
                  /\ harness[a].idx = harness[b].idx
                  /\ harness[a].freq = harness[b].freq

\* slot 3: x = 0x1234ABCD ^ 3, prn = 2082085615, index 7
C14_Witness ==
    /\ harness.phase = "static" /\ harness.done = StaticNodes
    /\ harness.rx.slot = 3 /\ harness.tx.slot = 3 /\ harness.resp.slot = 3
    /\ harness.rx.prn = 2082085615 /\ harness.tx.idx = 7 /\ harness.resp.idx = 7

\* C15. Rollover-safe slot timing: as time goes on, across the wrap of
\* the tick counter, the slot computed by the static scheduler and by the
\* epoch-based scheduler never jumps backwards.
C15_SlotNeverBackwards ==
    harness.phase = "static" =>
        \A a \in StaticNodes :
            harness[a].prev # NoneInt => harness[a].prev <= harness[a].slot

\* C16: for every key and every message of length 0 .. MaxMsgLen, padding
\* adds 1 .. 16 bytes after the message and yields a multiple of 16,
\* unpadding the padded message gives the message back, decrypting the CBC
\* ciphertext under the same key and IV and unpadding gives the message
\* back, and ECB decryption under the same key gives the wrapped 32-byte
\* block SK || TAG_BLOCK back.
CodecAfter(steps) == harness.phase = "codec" /\ harness.step \notin steps
C16_RoundTrip ==
    /\ CodecAfter({"in"}) =>
          /\ Len(harness.padded) - Len(harness.m) \in 1..16
          /\ Len(harness.padded) % 16 = 0
          /\ SubSeq(harness.padded, 1, Len(harness.m)) = harness.m
    /\ CodecAfter({"in", "padded"}) =>
          harness.rt.ok /\ harness.rt.val = harness.m
    /\ CodecAfter({"in", "padded", "unpadded", "enc"}) /\ harness.dkey = harness.key =>
          harness.clear.ok /\ harness.clear.val = harness.m
    /\ CodecAfter({"in", "padded", "unpadded", "enc", "dec", "wrapped"})
          /\ harness.dkey = harness.key =>
          harness.blk = <<harness.sk, TAG_BLOCK>>

\* A message of exactly one block whose bytes all look like padding went
\* through every step under one key.
C16_Witness ==
    /\ harness.phase = "codec" /\ harness.step = "done"
    /\ harness.dkey = harness.key
    /\ harness.m = [i \in 1..16 |-> 16]
    /\ Len(harness.padded) = 32
    /\ harness.clear.ok /\ harness.clear.val = harness.m

\* C17: whenever the Responder handles a Data frame that was encrypted
\* under the message key of its own session key and of the counter the
\* frame carries, it recovers the message, whichever counters it decoded
\* before (none, a later one, or the same one).
DataUnderKey(payload, K) ==
    /\ payload # None /\ K # None
    /\ LET kv == parse_kvs(payload)
       IN /\ IsData(kv) /\ Has(kv, "counter") /\ IsDec(kv["counter"])
          /\ IsHex(kv["msg"]) /\ IsHex(kv["iv"])
          /\ unhexlify(kv["msg"]).k = derive_msg_key(K, int_of(kv["counter"]))
          /\ unhexlify(kv["msg"]).iv = unhexlify(kv["iv"])
FrameCounter(payload) == int_of(parse_kvs(payload)["counter"])
C17_DecodeStep ==
    (rsp.pc = "got" /\ rsp' # rsp /\ DataUnderKey(rsp.rx.payload, rsp.session_key)) =>
        /\ rsp'.log = "data_ok"
        /\ rsp'.clear = MESSAGE
        /\ rsp'.ctr = FrameCounter(rsp.rx.payload)
C17_AnyOrderDecrypt == [][C17_DecodeStep]_vars

\* The Responder has just decoded counter 1, it decoded counter 2 before
\* that, and it never decoded counter 0.
C17_Witness ==
    /\ rsp.log = "data_ok" /\ rsp.clear = MESSAGE
    /\ rsp.ctr = 1 /\ rsp.decoded = {1, 2}

\* C18: a decrypted buffer is accepted only if its final byte pad is in
\* 1 .. 16 and its last pad bytes all equal pad; for any other buffer, the
\* empty one included, the Responder and the Sniffer log the failure, keep
\* their keys, hop seed, epoch and handshake table, and return to recv.
ValidPadding(b) ==
    /\ Len(b) > 0
    /\ b[Len(b)] \in 1..16
    /\ b[Len(b)] <= Len(b)
    /\ \A i \in (Len(b) - b[Len(b)] + 1)..Len(b) : b[i] = b[Len(b)]
DataFields(payload) ==
    /\ payload # None /\ IsUtf8(payload)
    /\ LET kv == parse_kvs(payload)
       IN /\ ~IsHello(kv) /\ IsData(kv)
          /\ IsHex(kv["iv"]) /\ IsHex(kv["msg"])
RspBuffer ==
    LET kv == parse_kvs(rsp.rx.payload)
    IN aes_cbc_decrypt(derive_msg_key(rsp.session_key, int_of(kv["counter"])),
                       unhexlify(kv["iv"]), unhexlify(kv["msg"]))
SnfBuffer ==
    LET kv == parse_kvs(snf.rx.payload)
    IN aes_cbc_decrypt(snf.active_session_key, unhexlify(kv["iv"]), unhexlify(kv["msg"]))
RspDecrypts ==
    /\ rsp.pc = "got" /\ rsp' # rsp /\ rsp.session_key # None
    /\ DataFields(rsp.rx.payload)
    /\ Has(parse_kvs(rsp.rx.payload), "counter")
    /\ IsDec(parse_kvs(rsp.rx.payload)["counter"])
SnfDecrypts ==
    /\ snf.pc = "got" /\ snf' # snf /\ snf.active_session_key # None
    /\ DataFields(snf.rx.payload)
    /\ ~(Has(parse_kvs(snf.rx.payload), "ek") /\ Has(parse_kvs(snf.rx.payload), "nonce"))
C18_RspStep ==
    RspDecrypts =>
        IF ValidPadding(RspBuffer)
        THEN /\ rsp'.log = "data_ok"
             /\ rsp'.clear \o [i \in 1..RspBuffer[Len(RspBuffer)] |-> RspBuffer[Len(RspBuffer)]]
                  = RspBuffer
        ELSE /\ rsp'.log = "decrypt_error"
             /\ rsp'.pc = "top"
             /\ rsp'.clear = rsp.clear
             /\ rsp'.session_key = rsp.session_key
             /\ rsp'.hop_seed = rsp.hop_seed
             /\ rsp'.fhss_epoch_ms = rsp.fhss_epoch_ms
C18_SnfStep ==
    SnfDecrypts =>
        IF ValidPadding(SnfBuffer)
        THEN /\ snf'.log = "dec-ok"
             /\ snf'.msg_clear \o [i \in 1..SnfBuffer[Len(SnfBuffer)] |-> SnfBuffer[Len(SnfBuffer)]]
                  = SnfBuffer
        ELSE /\ snf'.log = "dec-fail"
             /\ snf'.pc = "recv"
             /\ snf'.msg_clear = snf.msg_clear
             /\ snf'.handshakes = snf.handshakes
             /\ snf'.active_nonce = snf.active_nonce
             /\ snf'.active_session_key = snf.active_session_key
C18_PaddingValidation == [][C18_RspStep /\ C18_SnfStep]_vars

\* One noise frame whose last two bytes are 3, 2 under the Responder's key
\* was dropped by the Responder and by the Sniffer, both still keyed.
C18_Witness ==
    /\ rsp.log = "decrypt_error" /\ rsp.session_key # None /\ rsp.pc = "top"
    /\ snf.log = "dec-fail" /\ snf.active_session_key # None
    /\ snf.seen = NoiseData(derive_msg_key(rsp.session_key, 0), Buf16(72, <<3, 2>>))

\* C19: a frame that is not UTF-8, lacks a required field, carries a field
\* that is not hexadecimal or not a number, or fails the padding check, is
\* rejected by the loop that received it: the loop goes on to its next
\* iteration and its session state is the one it had before the frame.
MalformedData(kv, key_of) ==
    /\ ~IsHello(kv) /\ Has(kv, "kind") /\ kv["kind"] = "data"
    /\ \/ ~(Has(kv, "iv") /\ Has(kv, "msg") /\ Has(kv, "counter"))
       \/ ~IsDec(kv["counter"])
       \/ ~(IsHex(kv["iv"]) /\ IsHex(kv["msg"]))
       \/ /\ key_of[IF IsDec(kv["counter"]) THEN int_of(kv["counter"]) ELSE 0] # None
          /\ ~ValidPadding(aes_cbc_decrypt(
                   key_of[IF IsDec(kv["counter"]) THEN int_of(kv["counter"]) ELSE 0],
                   unhexlify(kv["iv"]), unhexlify(kv["msg"])))
MalformedHello(kv) ==
    Has(kv, "hello") /\ kv["hello"] = "1" /\ (Has(kv, "nonce") => ~IsHex(kv["nonce"]))
IniMalformed ==
    /\ ini.pc = "got" /\ ini' # ini /\ ini.rx.payload # None
    /\ \/ ~IsUtf8(ini.rx.payload)
       \/ LET kv == parse_kvs(ini.rx.payload)
          IN \/ ~(Has(kv, "ek") /\ Has(kv, "nonce") /\ Has(kv, "start_in"))
             \/ /\ NonceMatches(ini, kv)
                /\ ~(IsDec(kv["start_in"]) /\ IsHex(kv["ek"]) /\ IsHex(kv["nonce"]))
RspMalformed ==
    /\ rsp.pc = "got" /\ rsp' # rsp /\ rsp.rx.payload # None
    /\ \/ ~IsUtf8(rsp.rx.payload)
       \/ MalformedHello(parse_kvs(rsp.rx.payload))
       \/ MalformedData(parse_kvs(rsp.rx.payload),
                        [c \in 0..(MaxCounter + 1) |->
                            IF rsp.session_key = None THEN None
                            ELSE derive_msg_key(rsp.session_key, c)])
SnfMalformed ==
    /\ snf.pc = "got" /\ snf' # snf /\ snf.rx.payload # None
    /\ \/ ~IsUtf8(snf.rx.payload)
       \/ MalformedHello(parse_kvs(snf.rx.payload))
       \/ LET kv == parse_kvs(snf.rx.payload)
          IN /\ ~IsHello(kv) /\ Has(kv, "ek") /\ Has(kv, "nonce")
             /\ ~(IsHex(kv["ek"]) /\ IsHex(kv["nonce"]))
       \/ LET kv == parse_kvs(snf.rx.payload)
          IN /\ ~(Has(kv, "ek") /\ Has(kv, "nonce"))
             /\ MalformedData(kv, [c \in 0..(MaxCounter + 1) |-> snf.active_session_key])
LoopsGoOn ==
    /\ IniMalformed => ini'.pc = "sleep_retry" /\ ini'.log \in {"error", "missing"}
    /\ RspMalformed => rsp'.pc = "top"
    /\ SnfMalformed => snf'.pc = "recv"
KeysKept ==
    /\ IniMalformed =>
          /\ ini'.session_key = ini.session_key
          /\ ini'.hop_seed = ini.hop_seed
          /\ ini'.counter = ini.counter
    /\ RspMalformed =>
          /\ rsp'.session_key = rsp.session_key
          /\ rsp'.hop_seed = rsp.hop_seed
          /\ rsp'.fhss_epoch_ms = rsp.fhss_epoch_ms
    /\ SnfMalformed =>
          /\ snf'.active_nonce = snf.active_nonce
          /\ snf'.active_session_key = snf.active_session_key
C19_MalformedLeavesState ==
    [][/\ LoopsGoOn /\ KeysKept
       /\ IniMalformed => ini'.fhss_epoch_ms = ini.fhss_epoch_ms
       /\ SnfMalformed => snf'.handshakes = snf.handshakes]_vars

\* C19, as the code has it: the loops go on and the session key, the hop
\* seed, the counter and the Sniffer's active key are kept; the Initiator
\* may already have assigned fhss_epoch_ms from the frame, and the Sniffer
\* may already have noted the frame's nonce and ek in its handshake table.
C19_MalformedKeepsKeys == [][LoopsGoOn /\ KeysKept]_vars

\* The Initiator has dropped a key reply whose ek is not hexadecimal and
\* sleeps before its next Hello, with no session key but with an epoch.
C19_Witness ==
    /\ ini.pc = "sleep_retry" /\ ini.log = "error"
    /\ ini.session_key = None
    /\ ini.fhss_epoch_ms # NoneInt
    /\ budget.replays < MaxReplay

\* C20: derive_msg_key gives the same key for the same session key and
\* counter, in the sender's and in the receiver's copy, and two distinct
\* counters under one session key always give two distinct keys.
KeysDone == harness.phase = "key" /\ harness.step = "done"
C20_DistinctCounters ==
    KeysDone =>
        /\ harness.k3 = harness.k2
        /\ (harness.sk1 = harness.sk2 /\ harness.c1 = harness.c2) => harness.k1 = harness.k2
        /\ (harness.sk1 = harness.sk2 /\ harness.c1 # harness.c2) => harness.k1 # harness.k2

\* C20, as the code has it: the counter enters the key through its low 32
\* bits only, so two counters give the same key exactly when they are
\* equal modulo 2^32.
SameLow32(c, d) == c.lo = d.lo /\ (c.hi % 2) = (d.hi % 2)
C20_DistinctModulo ==
    KeysDone =>
        /\ harness.k3 = harness.k2
        /\ harness.k1 = harness.k2 <=>
              (harness.sk1 = harness.sk2 /\ SameLow32(harness.c1, harness.c2))

\* Counters 1 and 2^32 + 1 under one session key gave one key.
C20_Witness ==
    /\ KeysDone
    /\ harness.sk1 = harness.sk2
    /\ harness.c1 = [hi |-> 0, lo |-> 1] /\ harness.c2 = [hi |-> 2, lo |-> 1]
    /\ harness.k1 = harness.k2

\* C21: the Initiator's counter is 0 until the first Data transmission,
\* goes up by exactly 1 when a Data transmission attempt returns, sent or
\* timed out, and changes at no other step; the counter field of every
\* Data frame is the counter its message key was derived from, and no two
\* Data frames put on the air carry the same counter.
DataFramesSent == {f \in sent : IsData(parse_kvs(f.payload))}
CounterOfPayload(payload) == int_of(parse_kvs(payload)["counter"])
KeyOfPayload(payload) == unhexlify(parse_kvs(payload)["msg"]).k
C21_CounterState ==
    /\ ini.counter >= 0
    /\ ini.session_key = None => ini.counter = 0
    /\ \A f \in DataFramesSent :
          /\ IsDec(parse_kvs(f.payload)["counter"])
          /\ CounterOfPayload(f.payload) < ini.counter
          /\ KeyOfPayload(f.payload)
                = derive_msg_key(ini.session_key, CounterOfPayload(f.payload))
    /\ \A f \in DataFramesSent, g \in DataFramesSent :
          CounterOfPayload(f.payload) = CounterOfPayload(g.payload) => f = g
    /\ ini.pc \in {"data_tx", "rep_tx"} =>
          /\ CounterOfPayload(ini.tx.payload) = ini.counter
          /\ KeyOfPayload(ini.tx.payload) = derive_msg_key(ini.session_key, ini.counter)
C21_CounterStep ==
    IF ini.pc \in {"data_tx", "rep_tx"} /\ ini' # ini
    THEN ini'.counter = ini.counter + 1
    ELSE ini'.counter = ini.counter
C21_CounterDiscipline == [] C21_CounterState /\ [][C21_CounterStep]_vars

\* A Data send has just timed out after an earlier one went out: the
\* counter moved on both times.
C21_Witness ==
    /\ ini.log = "data_timeout" /\ ini.counter = 2
    /\ \E f \in DataFramesSent : CounterOfPayload(f.payload) = 0

\* C22: a key reply with the nonce of the current Hello and an ek that
\* unwraps within the window, but with no start_in field, is processed:
\* the Initiator installs the session key.
ReplyWithoutStartIn ==
    /\ ini.pc = "got" /\ ini' # ini
    /\ ini.rx.payload # None /\ IsUtf8(ini.rx.payload)
    /\ LET kv == parse_kvs(ini.rx.payload)
       IN /\ Has(kv, "ek") /\ Has(kv, "nonce") /\ ~Has(kv, "start_in")
          /\ NonceMatches(ini, kv)
          /\ unwrap_session_key_bruteforce(kv["ek"], kv["nonce"], ini.rx.rssi).sess # None
C22_OptionalStartIn ==
    [][ReplyWithoutStartIn =>
          /\ ini'.session_key # None
          /\ ini'.session_key =
                unwrap_session_key_bruteforce(parse_kvs(ini.rx.payload)["ek"],
                    parse_kvs(ini.rx.payload)["nonce"], ini.rx.rssi).sess]_vars

\* C23: when the Sniffer handles a key reply whose ek or nonce is not
\* hexadecimal, or whose ek gives the tag block for no q in Q_MIN .. Q_MAX,
\* the recovery fails, the session key filed under that nonce is what it
\* was, and active_nonce and active_session_key are what they were.
CorruptedKeyReply ==
    /\ snf.pc = "got" /\ snf' # snf
    /\ snf.rx.payload # None /\ IsUtf8(snf.rx.payload)
    /\ LET kv == parse_kvs(snf.rx.payload)
       IN /\ ~IsHello(kv) /\ Has(kv, "ek") /\ Has(kv, "nonce")
          /\ \/ ~(IsHex(kv["ek"]) /\ IsHex(kv["nonce"]))
             \/ \A q \in Q_MIN..Q_MAX :
                    ~TagMatches(unhexlify(kv["ek"]), unhexlify(kv["nonce"]), q)
C23_CorruptedStep ==
    CorruptedKeyReply =>
        LET nonce_hex == parse_kvs(snf.rx.payload)["nonce"]
        IN /\ snf'.log \in {"bad_hex", "failed"}
           /\ HsGet(snf'.handshakes, nonce_hex).sess = HsGet(snf.handshakes, nonce_hex).sess
           /\ snf'.active_nonce = snf.active_nonce
           /\ snf'.active_session_key = snf.active_session_key
C23_CorruptedReplyNoKey == [][C23_CorruptedStep]_vars

\* The Sniffer, holding a recovered key, has seen a key reply whose ek
\* matches no q of its range: the recovery failed and the key is still
\* the active one.
C23_Witness ==
    /\ snf.log = "failed"
    /\ snf.active_session_key # None /\ snf.active_nonce # None
    /\ snf.seen # None
    /\ Has(parse_kvs(snf.seen), "ek") /\ parse_kvs(snf.seen)["ek"] = NoiseEk

\* C24: whatever the Sniffer observes, it has no transmission under way,
\* its radio stays on the frequency set at start, it is either inside
\* recv or handling what recv returned, and every frame that goes on the
\* air is the Initiator's or the Responder's.
C24_SnifferState ==
    /\ snf.tx = NoTx
    /\ snf.freq = RENDEZVOUS_FREQ_KHZ
    /\ snf.pc \in {"recv", "got"}
C24_SnifferStep ==
    /\ snf'.freq = snf.freq
    /\ snf'.tx = NoTx
    /\ sent' # sent =>
          \/ ini.tx # NoTx /\ ini.tx.ok /\ sent' = sent \cup {OnAir(ini.tx)}
          \/ rsp.tx # NoTx /\ rsp.tx.ok /\ sent' = sent \cup {OnAir(rsp.tx)}
C24_PassiveSniffer == [] C24_SnifferState /\ [][C24_SnifferStep]_vars

\* The Sniffer has recovered a key and has handled a Data frame, still on
\* its first frequency and with nothing sent.
C24_Witness ==
    /\ snf.log \in {"dec-ok", "dec-fail"}
    /\ snf.active_session_key # None
    /\ snf.freq = RENDEZVOUS_FREQ_KHZ /\ snf.tx = NoTx
    /\ SeenData

\* C25: a send that has returned gave True exactly when the last read of
\* the IRQ register showed TX-done, and then no clock read of the call had
\* found more than timeout_ms elapsed; it gave False exactly when the flag
\* was clear and the clock showed more than timeout_ms; either way the
\* last mode written to the radio is standby.
SendReturned == harness.pc = "returned" /\ harness.call = "send"
RecvReturned == harness.pc = "returned" /\ harness.call = "recv"
RecvCrcError ==
    Bit(harness.irq_read, IRQ_RX_DONE_MASK) /\ Bit(harness.irq_read, IRQ_PAYLOAD_CRC_ERROR)
RecvTimedOut ==
    /\ ~Bit(harness.irq_read, IRQ_RX_DONE_MASK)
    /\ harness.timeout_ms # 0 /\ harness.clock_read > harness.timeout_ms
C26_RecvContract ==
    RecvReturned =>
        /\ harness.ret.payload = None <=> (RecvCrcError \/ RecvTimedOut)
        /\ harness.ret.payload = None => harness.ret = NoPacket
        /\ harness.ret.payload # None =>
              /\ Bit(harness.irq_read, IRQ_RX_DONE_MASK)
              /\ harness.ret = [payload |-> Bytes(harness.fifo),
                                rssi |-> RSSI_OFFSET_DBM + harness.pkt_rssi,
                                snr |-> IF harness.pkt_snr >= 128
                                        THEN harness.pkt_snr - 256
                                        ELSE harness.pkt_snr]
        /\ harness.op_mode = MODE_LONG_RANGE_MODE + MODE_STDBY
        /\ ~Bit(harness.irq, IRQ_RX_DONE_MASK)

\* A recv that returned None for a frame with a CRC error, in standby.
C26_Witness ==
    /\ RecvReturned /\ RecvCrcError
    /\ harness.ret = NoPacket
    /\ harness.fifo # None
    /\ harness.op_mode = MODE_LONG_RANGE_MODE + MODE_STDBY

\* A recv that returned a frame of zero bytes, and one that timed out.
C26_WitnessFrame ==
    RecvReturned /\ harness.ret.payload = Bytes(<<>>) /\ harness.ret.snr < 0
C26_WitnessTimeout ==
    RecvReturned /\ RecvTimedOut /\ harness.ret = NoPacket

\* C27 as stated. Bounded blocking: a radio call that is still polling has
\* not yet seen its timeout pass by more than the one millisecond of the
\* "> timeout_ms" test, whichever loop made the call.
RadioElapsed == ticks_diff(ticks_ms, harness.t0)
C27_BoundedBlocking ==
    harness.pc = "poll" => RadioElapsed <= harness.timeout_ms + 1

\* C27, amended: the timeouts the Initiator and the Responder pass are
\* positive, and a send, or a recv with a positive timeout, that is still
\* polling has not seen its timeout pass by more than one millisecond;
\* the Sniffer's recv(timeout_ms=0) never consults the clock and returns
\* only with RX-done set.
LoopTimeouts ==
    {SEND_TIMEOUT_MS, REPLY_TIMEOUT_MS, LISTEN_TIMEOUT_MS, PARKED_TIMEOUT_MS,
     HOP_GUARD_MS + 1}
C27_BoundedExceptSniffer ==
    /\ \A t \in LoopTimeouts : t > 0
    /\ (/\ harness.pc = "poll"
        /\ harness.call = "send" \/ harness.timeout_ms # SNIFF_RECV_TIMEOUT_MS)
          => RadioElapsed <= harness.timeout_ms + 1
    /\ (RecvReturned /\ harness.timeout_ms = SNIFF_RECV_TIMEOUT_MS)
          => Bit(harness.irq_read, IRQ_RX_DONE_MASK)

\* The Sniffer's recv still polling, frame-less, after more time than the
\* finite timeout of the other calls.
C27_Witness ==
    /\ harness.pc = "poll" /\ harness.call = "recv"
    /\ harness.timeout_ms = SNIFF_RECV_TIMEOUT_MS
    /\ harness.irq = 0
    /\ RadioElapsed > RadioTimeout + 1

\* C28: with one Initiator and no injected frame, whenever the Initiator
\* holds a session (Established), the Responder's current session key and
\* hop seed are the Initiator's, whatever Hello time-outs, lost replies,
\* failed unwraps and retries came before.
C28_SessionConsistency ==
    ini.session_key # None =>
        /\ rsp.session_key = ini.session_key
        /\ rsp.hop_seed = ini.hop_seed

\* Established on a retry: the Responder has replaced its key at least
\* once, and the Initiator has sent Data under the last one.
C28_Witness ==
    /\ ini.session_key # None /\ ini.counter >= 1
    /\ rsp.key_ctr >= 2 /\ ini.nonce_ctr >= 2
    /\ rsp.session_key = ini.session_key /\ rsp.hop_seed = ini.hop_seed

\* C29 as stated. Recovery after a lost KeyReply: once the link delivers
\* every frame, an Initiator that still has two retries and the time for
\* them left eventually reaches Established.
RetryLeft ==
    /\ ini.nonce_ctr + 2 <= budget.nonces
    /\ now + 2 * (REPLY_TIMEOUT_MS + RETRY_SLEEP_MS + 4 * TxAirMs) <= budget.time
HelloCompletes ==
    /\ ~budget.lossy /\ ini.pc = "hello_tx" /\ ini'.pc = "recv"
RspListenSlot ==
    LET d == ticks_diff(rsp.rx_t0 % TICKS_PERIOD, rsp.fhss_epoch_ms)
    IN IF d < 0 THEN 0 - 1 ELSE d \div HOP_INTERVAL_MS
RspHoppedAway ==
    /\ rsp.pc = "recv" /\ rsp.session_key # None /\ RspListenSlot >= 0
    /\ rx_hop_freq_for_slot_seeded(rsp.hop_seed, RspListenSlot) # RENDEZVOUS_FREQ_KHZ
C29_HelloStep ==
    HelloCompletes =>
        /\ ini.tx.freq = RENDEZVOUS_FREQ_KHZ
        /\ (rsp'.pc = "got" /\ rsp'.rx.payload = ini.tx.payload)
              <=> (rsp.pc = "recv" /\ rsp.freq = RENDEZVOUS_FREQ_KHZ
                   /\ rsp.rx_t0 <= ini.tx.t0)
        /\ RspHoppedAway => (rsp' = rsp /\ issued' = issued)
RetryHeard ==
    /\ ~budget.lossy /\ budget.rssi = GoodRssi
    /\ ini.session_key = None /\ ini.nonce_ctr >= 2
    /\ rsp.pc = "got" /\ rsp.rx.payload = HelloFrame(ini.nonce_hex)
    /\ now + 2 * TxAirMs <= budget.time
C29_WitnessRecovered ==
    /\ ~budget.lossy /\ budget.rssi = GoodRssi
    /\ ini.session_key # None /\ ini.nonce_ctr >= 3
    /\ rsp.session_key = ini.session_key /\ rsp.key_ctr = 2

GoodLink == ~budget.lossy /\ \A a, b \in budget.rssi : Abs(a - b) <= RSSI_WINDOW_DB
RspDecrypted ==
    /\ rsp.log = "data_ok" /\ rsp.clear = MESSAGE /\ rsp.decoded # {}
    /\ rsp.session_key = ini.session_key
    /\ ticks_diff(now % TICKS_PERIOD, rsp.fhss_epoch_ms) >= 0
C30_GoodLinkLiveness ==
    GoodLink => (<>(ini.session_key # None) /\ <>RspDecrypted)
C30_Witness == GoodLink /\ ini.session_key # None /\ RspDecrypted
\* ---------------------------------------------------------------- C31
\* C31: for one handshake the Initiator's epoch is never earlier than the
\* Responder's and later by at most the transmit time of the KeyReply;
\* and at the instant the Initiator starts a slot-centred Data
\* transmission labelled slot s on the frequency of slot s, the
\* Responder's slot_from_epoch is s and a Responder inside recv is tuned
\* to that frequency.
SameHandshake == ini.session_key # None /\ rsp.session_key = ini.session_key
EpochLag == ticks_diff(ini.fhss_epoch_ms, rsp.fhss_epoch_ms)
DataTxStarts == ini.pc = "data_tx" /\ now = ini.tx.t0
C31_SlotAgreement ==
    SameHandshake =>
        /\ EpochLag >= 0 /\ EpochLag <= TxAirMs
        /\ DataTxStarts =>
              /\ ini.tx.freq = hop_freq_for_slot_seeded(ini.hop_seed, ini.slot)
              /\ slot_from_epoch(rsp.fhss_epoch_ms) = ini.slot
              /\ rsp.pc = "recv" => rsp.freq = ini.tx.freq

\* A Data transmission starting in a later slot than the first, with the
\* Responder listening.
C31_Witness ==
    /\ SameHandshake /\ DataTxStarts /\ ini.slot >= 1
    /\ EpochLag = TxAirMs
    /\ rsp.pc = "recv" /\ rsp.freq = ini.tx.freq /\ HopListen
\* ---------------------------------------------------------------- C32
\* C32: the Initiator builds and transmits a Data frame only while it
\* holds a session key, with the hop seed and the epoch that the handshake
\* which produced that key set, and with its clock at or past the epoch
\* (slot >= 0); the handshake step that sets the key sets the other two in
\* the same step.
IniSendsData == ini.pc \in {"settle", "data_tx", "rep_tx"}
IniHandshakeRecord ==
    {rec \in issued : /\ rec.nonce_hex = ini.nonce_hex
                      /\ rec.session_key = ini.session_key
                      /\ rec.hop_seed = ini.hop_seed}
C32_DataState ==
    IniSendsData =>
        /\ ini.session_key # None
        /\ ini.hop_seed # NoneInt /\ ini.fhss_epoch_ms # NoneInt
        /\ IniHandshakeRecord # {}
        /\ slot_from_epoch(ini.fhss_epoch_ms) >= 0
        /\ ini.slot >= 0
        /\ ini.tx.payload = None \/ IsData(parse_kvs(ini.tx.payload))
C32_KeyStep ==
    (ini.session_key = None /\ ini'.session_key # None) =>
        /\ ini.pc = "got"
        /\ ini'.fhss_epoch_ms = ticks_add(ticks_ms, START_IN_MS)
        /\ \E rec \in issued :
              /\ rec.nonce_hex = ini.nonce_hex
              /\ ini'.session_key = rec.session_key
              /\ ini'.hop_seed = derive_hop_seed(rec.session_key, rec.q)
C32_DataFrameSent ==
    \A f \in sent' \ sent :
        IsData(parse_kvs(f.payload)) =>
            /\ ini.pc \in {"data_tx", "rep_tx"} /\ f = OnAir(ini.tx)
            /\ ini.session_key # None
            /\ ticks_diff(ini.tx.t0, ini.fhss_epoch_ms) >= 0
C32_DataOnlyEstablished ==
    []C32_DataState /\ [][C32_KeyStep /\ C32_DataFrameSent]_vars

\* A Data frame goes on the air after a handshake that succeeded on a
\* retry, the Responder having answered an earlier Hello as well.
C32_Witness ==
    /\ ini.pc = "data_tx" /\ ini.tx.ok /\ ini.nonce_ctr >= 2
    /\ IniHandshakeRecord # {}
    /\ \E rec \in issued : rec.nonce_hex # ini.nonce_hex
\* ---------------------------------------------------------------- C33
\* C33: once the Initiator holds a session key, no step changes its
\* session_key, hop_seed or fhss_epoch_ms, it draws no new nonce, starts
\* no Hello transmission and puts no Hello on the air, whatever frames
\* are on the air and whichever of its sends fail.
C33_Step ==
    ini.session_key # None =>
        /\ ini'.session_key = ini.session_key
        /\ ini'.hop_seed = ini.hop_seed
        /\ ini'.fhss_epoch_ms = ini.fhss_epoch_ms
        /\ ini'.nonce_ctr = ini.nonce_ctr
        /\ ini'.pc \notin {"hello_tx", "recv", "got", "sleep_retry"}
        /\ \A f \in sent' \ sent : ~IsHello(parse_kvs(f.payload))
C33_EstablishedAbsorbing == [][C33_Step]_vars

\* Established, a Data send has timed out, a frame has been re-injected,
\* and the Initiator is back at the head of its loop.
C33_Witness ==
    /\ ini.session_key # None /\ ini.log = "data_timeout"
    /\ ini.pc = "top" /\ ini.counter >= 2
    /\ budget.replays < MaxReplay
\* ---------------------------------------------------------------- C34
\* C34: the Responder's session_key, hop_seed and fhss_epoch_ms are all
\* unset or all set; when set, hop_seed = derive_hop_seed(session_key, q)
\* for the q of the Hello that produced session_key; the step that accepts
\* a Hello (with a session already held or not, the nonce seen before or
\* not) installs a key never issued before, the seed derived from it and
\* epoch = processing time + start_in; no other step changes any of the
\* three.
RspSession(r) == <<r.session_key, r.hop_seed, r.fhss_epoch_ms>>
RspAcceptsHello ==
    /\ rsp.pc = "got" /\ rsp.rx.payload # None /\ IsUtf8(rsp.rx.payload)
    /\ IsHello(parse_kvs(rsp.rx.payload))
    /\ IsHex(parse_kvs(rsp.rx.payload)["nonce"])
C34_SessionState ==
    IF rsp.session_key = None
    THEN rsp.hop_seed = NoneInt /\ rsp.fhss_epoch_ms = NoneInt
    ELSE /\ rsp.fhss_epoch_ms # NoneInt
         /\ \E rec \in issued :
               /\ rec.session_key = rsp.session_key
               /\ rsp.hop_seed = rx_derive_hop_seed(rsp.session_key, rec.q)
         /\ \A rec \in issued :
               rec.session_key = rsp.session_key =>
                  rsp.hop_seed = rx_derive_hop_seed(rsp.session_key, rec.q)
C34_SessionStep ==
    IF RspAcceptsHello /\ rsp' # rsp
    THEN /\ rsp'.session_key # None /\ rsp'.session_key # rsp.session_key
         /\ \A rec \in issued : rec.session_key # rsp'.session_key
         /\ rsp'.hop_seed =
               rx_derive_hop_seed(rsp'.session_key, q_rssi(rsp.rx.rssi, 1))
         /\ rsp'.fhss_epoch_ms = ticks_add(ticks_ms, START_IN_MS)
    ELSE RspSession(rsp') = RspSession(rsp)
C34_AtomicSession == []C34_SessionState /\ [][C34_SessionStep]_vars

\* A Hello with a nonce already answered is accepted by a Responder that
\* holds a session.
C34_Witness ==
    /\ RspAcceptsHello /\ rsp.session_key # None
    /\ \E rec \in issued :
          rec.nonce_hex = parse_kvs(rsp.rx.payload)["nonce"]
\* ---------------------------------------------------------------- C35
\* C35: while the Responder is sending a KeyReply it already holds the
\* session that reply carries (key, seed, epoch = processing time +
\* start_in); the return of the send, True or False, leaves that session
\* as it is; and a Responder whose recv started at or after the epoch
\* listens on the hop channel of its slot, whether or not any KeyReply
\* ever went on the air.
ReplyOnAir == \E f \in sent : Has(parse_kvs(f.payload), "ek")
C35_CommittedWhileSending ==
    rsp.pc = "reply_tx" =>
        /\ rsp.session_key # None
        /\ rsp.fhss_epoch_ms = ticks_add(rsp.tx.t0 % TICKS_PERIOD, START_IN_MS)
        /\ \E rec \in issued :
              /\ rec.session_key = rsp.session_key /\ rec.hop_seed = rsp.hop_seed
              /\ rsp.tx.payload = KeyReplyFrame(
                    hexlify(WrapSessionKey(rec.session_key, rec.q,
                                           unhexlify(rec.nonce_hex))),
                    rec.nonce_hex, START_IN_MS)
C35_ReplyReturns ==
    (rsp.pc = "reply_tx" /\ rsp'.pc # "reply_tx") =>
        /\ RspSession(rsp') = RspSession(rsp)
        /\ rsp'.pc = "top"
        /\ rsp'.log = (IF rsp.tx.ok THEN "reply_sent" ELSE "reply_timeout")
C35_HopsAtEpoch ==
    HopListen => rsp.freq = rx_hop_freq_for_slot_seeded(rsp.hop_seed, ListenSlot)
C35_CommitBeforeReply ==
    [](C35_CommittedWhileSending /\ C35_HopsAtEpoch) /\ [][C35_ReplyReturns]_vars

\* No KeyReply has ever gone on the air, and the Responder is hopping:
\* inside a recv on a channel other than the rendezvous channel.
C35_Witness ==
    /\ ~ReplyOnAir /\ rsp.key_ctr >= 1
    /\ HopListen /\ rsp.freq # RENDEZVOUS_FREQ_KHZ
\* ---------------------------------------------------------------- C36
\* C36: when the Responder processes a Hello (hello=1 with a nonce field)
\* whose nonce is not hexadecimal text, it starts no KeyReply, issues no
\* key, and leaves session_key, hop_seed and fhss_epoch_ms as they were.
RspGotBadNonce ==
    /\ rsp.pc = "got" /\ rsp.rx.payload # None /\ IsUtf8(rsp.rx.payload)
    /\ IsHello(parse_kvs(rsp.rx.payload))
    /\ parse_kvs(rsp.rx.payload)["nonce"][1] # "hex"
C36_Step ==
    (RspGotBadNonce /\ rsp' # rsp) =>
        /\ RspSession(rsp') = RspSession(rsp)
        /\ rsp'.key_ctr = rsp.key_ctr
        /\ rsp'.pc = "top" /\ rsp'.log = "bad_nonce"
        /\ rsp'.tx = NoTx
        /\ issued' = issued /\ sent' = sent
C36_BadNonceDropped == [][C36_Step]_vars

\* The Responder, holding a session, has a Hello with a bad nonce to
\* process.
C36_Witness == RspGotBadNonce /\ rsp.session_key # None

\* The frame has been dropped: the log says so and the session is there.
C36_WitnessDropped ==
    rsp.log = "bad_nonce" /\ rsp.pc = "top" /\ rsp.session_key # None
\* ---------------------------------------------------------------- C37
\* C37: the Responder issues a KeyReply and installs a session only for
\* a Hello whose nonce field has exactly 16 hexadecimal characters: every
\* session issued and every KeyReply in transmission carries such a nonce.
C37_NonceLengthEnforced ==
    /\ \A rec \in issued : HexLen(rec.nonce_hex) = 16
    /\ rsp.pc = "reply_tx" =>
          HexLen(parse_kvs(rsp.tx.payload)["nonce"]) = 16
\* ---------------------------------------------------------------- C38
\* C38: the Sniffer's active_nonce and active_session_key change only in
\* the step that processes a KeyReply whose brute force finds the tag; that
\* step makes the reply's nonce active with the key it files under that
\* nonce; every other frame (Hello, Data, unknown, a KeyReply whose brute
\* force fails, a frame that is not text) leaves both as they were; and in
\* every state with an active key, active_session_key is
\* handshakes[active_nonce].sess.
SnfRecovers ==
    /\ snf.pc = "got" /\ snf' # snf
    /\ snf.rx.payload # None /\ IsUtf8(snf.rx.payload)
    /\ LET kv == parse_kvs(snf.rx.payload)
       IN /\ ~IsHello(kv) /\ Has(kv, "ek") /\ Has(kv, "nonce")
          /\ IsHex(kv["ek"]) /\ IsHex(kv["nonce"])
          /\ \E q \in Q_MIN..Q_MAX :
                TagMatches(unhexlify(kv["ek"]), unhexlify(kv["nonce"]), q)
C38_ActiveState ==
    IF snf.active_session_key = None
    THEN snf.active_nonce = None
    ELSE /\ snf.active_nonce \in DOMAIN snf.handshakes
         /\ snf.handshakes[snf.active_nonce].sess = snf.active_session_key
C38_ActiveStep ==
    IF SnfRecovers
    THEN LET nonce_hex == parse_kvs(snf.rx.payload)["nonce"]
         IN /\ snf'.active_nonce = nonce_hex
            /\ snf'.active_session_key # None
            /\ snf'.active_session_key = snf'.handshakes[nonce_hex].sess
    ELSE /\ snf'.active_nonce = snf.active_nonce
         /\ snf'.active_session_key = snf.active_session_key
C38_ActiveKeyOnlyOnRecovery == []C38_ActiveState /\ [][C38_ActiveStep]_vars

\* The Sniffer holds an active key and the frame it processed last was a
\* Hello with another nonce, a Data frame, or an unknown frame.
C38_Witness ==
    /\ snf.active_session_key # None /\ snf.seen # None
    /\ snf.log \in {"hello", "other", "dec-ok", "dec-fail"}

C38_WitnessHello ==
    /\ snf.active_session_key # None /\ snf.log = "hello"
    /\ parse_kvs(snf.seen)["nonce"] # snf.active_nonce

C38_WitnessData ==
    snf.active_session_key # None /\ snf.log \in {"dec-ok", "dec-fail"}

C38_WitnessOther == snf.active_session_key # None /\ snf.log = "other"
\* ---------------------------------------------------------------- C39
\* C39: once a poll of slot_from_epoch has given a slot >= 0, every later
\* poll gives a slot that is >= 0 and not smaller than the one before, and
\* the Responder's loop tunes to the hop channel of that slot, however far
\* the tick counter has moved on since the epoch.
EpochElapsed == now - (harness.set_at + START_IN_MS)
C39_SlotStaysValid ==
    (harness.phase = "epoch" /\ harness.polled /\ EpochElapsed >= 0) =>
        /\ harness.slot >= 0
        /\ harness.prev <= harness.slot
        /\ harness.freq = rx_hop_freq_for_slot_seeded(EpochSeed, harness.slot)
\* ---------------------------------------------------------------- C40
\* C40: the dictionary parse_kvs returns holds exactly the keys of the
\* comma-separated tokens that contain "=", each key and value being the
\* stripped text before and after the token's first "=", with the value of
\* the last token that has the key; the Responder takes the frame for a
\* Hello exactly if hello is "1" and nonce is present, for Data exactly if
\* it is no Hello, a session key is held, kind is "data" and iv, msg and
\* counter are present, and for an unknown frame otherwise.  Adding a token
\* without "=", or whitespace at the edge of a key or a value, changes
\* nothing in the dictionary; adding an unknown key changes no other field
\* and not the class; a key repeated at the end replaces the value.
ParsedFrame == harness.phase = "parse" /\ harness.class # "none"
C40_Dictionary ==
    ParsedFrame =>
        LET toks == split(harness.text, ",")
            keyed == {i \in DOMAIN toks : \E c \in DOMAIN toks[i] : toks[i][c] = "="}
            kv == harness.kv
        IN /\ DOMAIN kv = {SplitPart(toks[i])[1] : i \in keyed}
           /\ \A k \in DOMAIN kv : \E i \in keyed :
                  /\ SplitPart(toks[i]) = <<k, kv[k]>>
                  /\ \A j \in keyed : j > i => SplitPart(toks[j])[1] # k
C40_Class ==
    ParsedFrame =>
        LET kv == harness.kv
            present(k) == k \in DOMAIN kv
            hello == present("hello") /\ kv["hello"] = "1" /\ present("nonce")
            data == /\ ~hello /\ harness.session_key # None
                    /\ present("kind") /\ kv["kind"] = "data"
                    /\ present("iv") /\ present("msg") /\ present("counter")
        IN /\ (harness.class = "hello") <=> hello
           /\ (harness.class = "data") <=> data
           /\ (harness.class = "other") <=> (~hello /\ ~data)
FirstEqAt(t, q) ==
    /\ q \in DOMAIN t /\ t[q] = "="
    /\ \A j \in 1..(q - 1) : t[j] = "=" => \E c \in (j + 1)..(q - 1) : t[c] = ","
SpaceAtEdge ==
    LET t == harness'.text
        p == harness'.edit.at
        sep(q) == q \in DOMAIN t /\ t[q] = ","
    IN \/ p = 1 \/ p = Len(t)
       \/ sep(p - 1) \/ sep(p + 1)
       \/ FirstEqAt(t, p - 1) \/ FirstEqAt(t, p + 1)
C40_EditStep ==
    (ParsedFrame /\ harness' # harness) =>
        LET kv == harness.kv
            kv2 == harness'.kv
            edit == harness'.edit
            same == kv2 = kv /\ harness'.class = harness.class
        IN /\ edit.kind = "junk" => same
           /\ (edit.kind = "space" /\ SpaceAtEdge) => same
           /\ edit.kind = "unknown" =>
                 /\ harness'.class = harness.class
                 /\ DOMAIN kv2 = DOMAIN kv \cup {"x"}
                 /\ \A k \in DOMAIN kv \ {"x"} : kv2[k] = kv[k]
           /\ (edit.kind = "repeat" /\ edit.at = Len(split(harness.text, ","))) =>
                 /\ DOMAIN kv2 = DOMAIN kv \cup {edit.tok[1]}
                 /\ kv2[edit.tok[1]] = Str(SubSeq(edit.tok, 3, Len(edit.tok)))
                 /\ \A k \in DOMAIN kv \ {edit.tok[1]} : kv2[k] = kv[k]
C40_TolerantParsing == [](C40_Dictionary /\ C40_Class) /\ [][C40_EditStep]_vars
\* a Hello with a token without "=" and an unknown key is still a Hello; a
\* Data frame whose kind was repeated with another value is an unknown frame
C40_Witness ==
    /\ ParsedFrame /\ harness.class = "hello" /\ harness.edits = 2
    /\ \E i \in DOMAIN split(harness.text, ",") : split(harness.text, ",")[i] = <<"junk">>
    /\ "x" \in DOMAIN harness.kv
C40_WitnessRepeat ==
    /\ ParsedFrame /\ harness.class = "other" /\ harness.session_key # None
    /\ harness.edit.kind = "repeat" /\ harness.edit.tok = <<"kind", "=", "ack">>
    /\ "counter" \in DOMAIN harness.kv /\ harness.kv["kind"] = "ack"
C40_WitnessFirstEq ==
    /\ ParsedFrame /\ harness.class = "hello"
    /\ harness.kv["nonce"] = "a=b"

====
